---- MODULE Spec2Model ----
(***************************************************************************)
(* A model of the permission-set design generator                          *)
(* (scripts/generate-design.js) and of the package.xml option of the       *)
(* describe fetcher.                                                       *)
(*                                                                         *)
(* The specifications share the variables below:                           *)
(*   SpecTable     the table generators applied to bounded inputs          *)
(*   SpecFieldRows the field tables over unusual CustomField members       *)
(*   SpecManifest  the package.xml readers and the describe scripts        *)
(*   SpecExtract   the table extractor applied to generated reports        *)
(*   Spec          a run of main(): prompt, metadata loading, retrieval,   *)
(*                 report writing, exit status                             *)
(*   SpecRerun     two runs of main() over the same working directory      *)
(*   SpecMenu      a run of main() over entity names that meet the menu    *)
(*   SpecImage     generateImage's column widths and text shortening       *)
(***************************************************************************)
EXTENDS Naturals, Sequences, FiniteSets, TLC

VARIABLES
    customObjects,  \* CustomObject members the generators iterate over
    customFields,   \* CustomField members the generators iterate over
    entityName,     \* the permission set / profile the tables are built for
    metadata,       \* the parsed metadata document of that entity
    describeData,   \* .describe_data: object name -> snapshot or NoDescribe
    table,          \* the result of each table generator, NotRun before it ran
    extracted,      \* what the table extractor gave for each table, NotExtracted before
    packageXml,     \* manifest/package.xml: the sequence of its types entries
    reader,         \* the last manifest reader that ran, and what it gave
    docs,           \* force-app/main/default: kind -> name -> state of the metadata document
    dirs,           \* the directories that exist under .design
    files,          \* the report files written: path -> content
    tempDir,        \* .temp: "none", "dir" (exists) or "manifest" (holds package.xml)
    permissionSets, \* main: the PermissionSet members of the manifest
    profiles,       \* main: the Profile members of the manifest
    selected,       \* main: the answer to the selection prompt
    pc,             \* main: where the run is
    load,           \* the running call of getPermissionSetMetadata / getProfileMetadata
    reads,          \* kind -> name -> local reads of the metadata document so far
    retrieveLog,    \* the manifests the retrieve command was run with, in order
    status,         \* "running", "exit0" or "exit1"
    stderr,         \* the messages written to the error stream, in order
    firstRun,       \* what the run before this one left, NoFirstRun in a first run
    canvas,         \* the cells the image drawing was given and the texts it drew
    choice          \* the menu entry picked at the prompt: its kind and its name

tableVars ==
    <<customObjects, customFields, entityName, metadata, describeData, table, extracted>>
manifestVars == <<packageXml, reader>>
runVars == <<docs, dirs, files, tempDir, permissionSets, profiles, selected, pc, load,
             reads, retrieveLog, status, stderr, firstRun, canvas, choice>>

vars == <<customObjects, customFields, entityName, metadata, describeData, table, extracted,
          packageXml, reader, docs, dirs, files, tempDir, permissionSets, profiles,
          selected, pc, load, reads, retrieveLog, status, stderr, firstRun, canvas, choice>>

----------------------------------------------------------------------------
(* Bounds of the model *)

\* longest manifest member list the table generators are run on
MaxRows == 2
\* most entries in one objectPermissions / fieldPermissions section
MaxEntries == 2
\* most types entries in a manifest
MaxTypes == 2
\* most members entries in one types entry
MaxMembers == 2
\* most PermissionSet members of the manifest of a run
MaxPermissionSets == 2
\* most Profile members of the manifest of a run
MaxProfiles == 1

----------------------------------------------------------------------------
(* Strings.  TLC cannot take a string apart, so a string that the code      *)
(* splits is given together with its decomposition, and the string itself  *)
(* is the concatenation of the parts.                                      *)

RECURSIVE Join(_, _)
\* Array.prototype.join(sep) over a sequence of strings
Join(parts, sep) ==
    IF Len(parts) = 0 THEN ""
    ELSE IF Len(parts) = 1 THEN parts[1]
    ELSE parts[1] \o sep \o Join(Tail(parts), sep)

\* the sequences over S of length 0..n
SeqUpTo(S, n) == UNION {[1..k -> S] : k \in 0..n}

\* the members of a list, as a set
Range(f) == {f[i] : i \in DOMAIN f}

\* the dot-separated segments of the field names of the model
FieldSegments ==
    {<<"Account", "Name">>, <<"Custom__c", "Flag__c">>, <<"Account", "Secret__c">>,
     <<"Account">>, <<"Account", "Owner">>, <<"Account", "Owner", "Name">>}

\* String.prototype.split("."): the segments whose join with "." is the string
SplitDot(s) == CHOOSE segs \in FieldSegments : Join(segs, ".") = s

\* the "__c"-tokenisation of the object names of the model: the occurrences
\* of "__c" and the text between them
NameTokens ==
    {<<"Account">>, <<"Custom", "__c">>, <<"Other", "__c">>, <<"ns", "__c", "ity", "__c">>}

TokensOf(s) == CHOOSE toks \in NameTokens : Join(toks, "") = s

RECURSIVE RemoveFirst(_, _)
RemoveFirst(toks, t) ==
    IF Len(toks) = 0 THEN <<>>
    ELSE IF toks[1] = t THEN Tail(toks)
    ELSE <<toks[1]>> \o RemoveFirst(Tail(toks), t)

\* String.prototype.replace("__c", ""): the first occurrence is removed
ReplaceSuffixMarker(s) == Join(RemoveFirst(TokensOf(s), "__c"), "")

\* the texts of the model that hold a pipe, as the pieces between the pipes
PipePieces == {<<"Tori", "hiki">>}

\* text.split("|"), each piece trimmed; the texts of the model have no outer
\* white space, so that the generators' padding of a cell with one space on
\* each side is what trim removes
SplitPipe(text) ==
    IF \E p \in PipePieces : Join(p, "|") = text
    THEN CHOOSE p \in PipePieces : Join(p, "|") = text
    ELSE <<text>>

RECURSIVE Flatten(_)
Flatten(seqs) == IF seqs = <<>> THEN <<>> ELSE Head(seqs) \o Flatten(Tail(seqs))

\* a line "| c1 | c2 | ... |" of the markdown table, as line.split("|") with
\* trimmed pieces sees it: an empty piece before the first pipe and after the
\* last, and between them the pieces of the cells
TableLine(cells) ==
    <<"">> \o Flatten([k \in 1..Len(cells) |-> SplitPipe(cells[k])]) \o <<"">>

NonEmpty(piece) == piece # ""

\* the texts of the model that hold a colon followed by a hyphen
DashTexts == {"Tori:-hiki"}

----------------------------------------------------------------------------
(* Input domains of the table generators *)

\* objects the manifest may list
ManifestObjects == {"Account", "Custom__c", "ns__city__c"}
\* an object that occurs in permission records only
RecordOnlyObject == "Other__c"
\* fields the manifest may list
ManifestFields == {"Account.Name", "Custom__c.Flag__c"}
\* a field that occurs in permission records only
RecordOnlyField == "Account.Secret__c"

EntityKinds == {"PermissionSet", "Profile"}

ObjectEntries(objs) ==
    [object : objs, allowCreate : BOOLEAN, allowRead : BOOLEAN, allowEdit : BOOLEAN,
     allowDelete : BOOLEAN, viewAllRecords : BOOLEAN, modifyAllRecords : BOOLEAN,
     viewAllFields : BOOLEAN]

\* entries of sections that hold several entries: no flag, Read only, every flag
SampleObjectEntries(objs) ==
    {e \in ObjectEntries(objs) :
        \/ ~(e.allowCreate \/ e.allowRead \/ e.allowEdit \/ e.allowDelete
               \/ e.viewAllRecords \/ e.modifyAllRecords \/ e.viewAllFields)
        \/ /\ e.allowRead
           /\ ~(e.allowCreate \/ e.allowEdit \/ e.allowDelete
                  \/ e.viewAllRecords \/ e.modifyAllRecords \/ e.viewAllFields)
        \/ /\ e.allowCreate /\ e.allowRead /\ e.allowEdit /\ e.allowDelete
           /\ e.viewAllRecords /\ e.modifyAllRecords /\ e.viewAllFields}

FieldEntries(flds) == [field : flds, readable : BOOLEAN, editable : BOOLEAN]

\* a section that is absent from the document parses to undefined
NoSection == [present |-> FALSE, list |-> <<>>]
Section(l) == [present |-> TRUE, list |-> l]

\* entries of field sections that hold several entries
SampleFieldEntries ==
    FieldEntries({"Account.Name"})
    \cup {e \in FieldEntries({RecordOnlyField}) : e.readable /\ ~e.editable}

\* a one-entry section takes every combination of flags for Account and the
\* samples for the other objects; a longer one takes its entries from the
\* samples
ObjectSections ==
    {NoSection}
    \cup {Section(l) : l \in SeqUpTo(ObjectEntries({"Account"}), 1)}
    \cup {Section(<<e>>) : e \in SampleObjectEntries({"Custom__c", RecordOnlyObject})}
    \cup {Section(l) : l \in {s \in SeqUpTo(SampleObjectEntries({"Account", RecordOnlyObject}), MaxEntries) : Len(s) >= 2}}

FieldSections ==
    {NoSection}
    \cup {Section(l) : l \in SeqUpTo(FieldEntries(ManifestFields \cup {RecordOnlyField}), 1)}
    \cup {Section(l) : l \in {s \in SeqUpTo(SampleFieldEntries, MaxEntries) : Len(s) >= 2}}

\* the describe snapshots of the model; NoDescribe: the snapshot file is
\* missing; Unusable: it is there and cannot be read ("unreadable") or does
\* not hold valid JSON ("invalid")
NoDescribe ==
    [available |-> FALSE, cause |-> "missing", label |-> "", hasFields |-> FALSE,
     fields |-> <<>>]
Unusable(cause) == [NoDescribe EXCEPT !.cause = cause]
Snapshot(label, fields) ==
    [available |-> TRUE, cause |-> "none", label |-> label, hasFields |-> TRUE,
     fields |-> fields]

DescribeCaches ==
    {[o \in ManifestObjects |->
        IF o = "Account" THEN NoDescribe
        ELSE IF o = "Custom__c" THEN Unusable("unreadable") ELSE Unusable("invalid")],
     [o \in ManifestObjects |->
        IF o = "Account"
        THEN Snapshot("Torihikisaki", <<[name |-> "Name", label |-> "Torihikisaki-mei"]>>)
        ELSE IF o = "Custom__c" THEN Unusable("invalid") ELSE NoDescribe]}

\* the caches of the field tables: also a snapshot without a field list and
\* a snapshot whose only descriptor differs from Name by the case of a letter;
\* their object labels hold a pipe, resp. a colon followed by a hyphen
FieldDescribeCaches ==
    DescribeCaches
    \cup {[o \in ManifestObjects |->
            IF o = "Account"
            THEN [available |-> TRUE, cause |-> "none", label |-> "Tori|hiki",
                  hasFields |-> FALSE, fields |-> <<>>]
            ELSE NoDescribe],
          [o \in ManifestObjects |->
            IF o = "Account"
            THEN Snapshot("Tori:-hiki", <<[name |-> "name", label |-> "komoji"]>>)
            ELSE NoDescribe]}

\* the parse of a metadata document: its root element (PermissionSet or
\* Profile), the label ("" when none is declared) and the two sections
Metadata(root, label, objs, flds) ==
    [root |-> root, label |-> label, objectPermissions |-> objs, fieldPermissions |-> flds]

\* the result of a table generator: the markdown document as its heading
\* line, the title line of the entity ("" when the template has none), the
\* tokens its legend section explains, and the header cells and the rows of
\* its table
NotRun ==
    [ran |-> FALSE, err |-> "none", heading |-> "", title |-> "", legend |-> <<>>,
     header |-> <<>>, rows |-> <<>>]
Threw(e) == [NotRun EXCEPT !.ran = TRUE, !.err = e]
Rendered(title, header, rows) ==
    [NotRun EXCEPT !.ran = TRUE, !.title = title, !.header = header, !.rows = rows]

\* the result of the table extractor: nothing yet, no table found (the
\* script ends with status 1), or the header cells and the rows it found
NotExtracted == [ran |-> FALSE, found |-> FALSE, header |-> <<>>, rows |-> <<>>]
NoTableFound == [NotExtracted EXCEPT !.ran = TRUE]
Extracted(header, rows) == [ran |-> TRUE, found |-> TRUE, header |-> header, rows |-> rows]

\* the templates of the object reports and of the field reports (the source
\* writes the heading and the legend in Japanese)
\* a variant of the object template without its legend section
ObjectReportWithoutLegend(title, header, rows) ==
    [Rendered(title, header, rows) EXCEPT !.heading = "ObjectPermissionDesign"]

ObjectReport(title, header, rows) ==
    [Rendered(title, header, rows) EXCEPT
        !.heading = "ObjectPermissionDesign",
        !.legend = <<"C", "R", "U", "D", "Va", "Ua", "Fa">>]
FieldReport(title, header, rows) ==
    [Rendered(title, header, rows) EXCEPT
        !.heading = "FieldPermissionDesign",
        !.legend = <<"R", "RU", "-">>]

----------------------------------------------------------------------------
(* The state of a run of main() *)

EntityNames == {"Sales", "Admin"}
ProfileNames == {"Admin"}
\* entity names that meet the words of the menu and of the path convention
MenuNames == {"Sales", "all", "All", "All summary"}

\* the state of a metadata document: present and well-formed, absent
\* (readFile fails with ENOENT), unreadable (readFile fails with another
\* error, such as EACCES)
DocStates == {"present", "absent", "unreadable"}

Pc(at, sub, r, c) == [at |-> at, sub |-> sub, r |-> r, c |-> c]

\* one call of a metadata loader: its position, the entity, the local reads
\* and the retrievePermissionSet calls made, the runs of the retrieve command,
\* the outcome of the first read, the step that raised the error and the
\* manifest handed to the retrieve command
NoLoad ==
    [pc |-> "idle", kind |-> "", name |-> "", reads |-> 0, calls |-> 0, retrievals |-> 0,
     first |-> "", cause |-> "", manifest |-> <<>>]

\* the run variables of a specification that runs no main()
\* no menu entry was picked yet
NoChoice == [kind |-> "", name |-> "", value |-> ""]

\* nothing was drawn
NoCanvas == [op |-> "none"]

\* no earlier run: the run is the first over this working directory
NoFirstRun == [done |-> FALSE, selected |-> "", status |-> "", dirs |-> {}, files |-> <<>>]
\* what an earlier run selected, how it ended and what it left under .design
FirstRun(sel, st, d, f) ==
    [done |-> TRUE, selected |-> sel, status |-> st, dirs |-> d, files |-> f]

RunIdle ==
    /\ docs = [k \in EntityKinds |-> [n \in EntityNames |-> "absent"]]
    /\ dirs = {}
    /\ files = <<>>
    /\ tempDir = "none"
    /\ permissionSets = <<>>
    /\ profiles = <<>>
    /\ selected = ""
    /\ pc = Pc("idle", "", 0, 0)
    /\ load = NoLoad
    /\ reads = [k \in EntityKinds |-> [n \in EntityNames |-> 0]]
    /\ retrieveLog = <<>>
    /\ status = "running"
    /\ stderr = <<>>
    /\ firstRun = NoFirstRun
    /\ canvas = NoCanvas
    /\ choice = NoChoice

----------------------------------------------------------------------------
(* The table generators *)

\* header cells of the generated tables (the source writes them in Japanese)
HdrObjectName == "ObjectName"
HdrObjectApiName == "ObjectApiName"
HdrFieldName == "FieldName"
HdrFieldApiName == "FieldApiName"
HdrPermission == "Permission"

NotFound == [found |-> FALSE]
Found(e) == [found |-> TRUE, value |-> e]

Min(S) == CHOOSE m \in S : \A n \in S : m <= n

\* section?.find((p) => p.object === objName)
FindObjectPermission(section, objName) ==
    IF ~section.present THEN NotFound
    ELSE LET hits == {i \in 1..Len(section.list) : section.list[i].object = objName}
         IN IF hits = {} THEN NotFound ELSE Found(section.list[Min(hits)])

\* section?.find((p) => p.field === fieldFullName)
FindFieldPermission(section, fieldFullName) ==
    IF ~section.present THEN NotFound
    ELSE LET hits == {i \in 1..Len(section.list) : section.list[i].field = fieldFullName}
         IN IF hits = {} THEN NotFound ELSE Found(section.list[Min(hits)])

\* fs.readFile + JSON.parse of .describe_data/<objectName>_describe.json;
\* every failure is caught and gives null
getObjectDescribe(objectName) ==
    IF objectName \in DOMAIN describeData /\ describeData[objectName].available
    THEN describeData[objectName]
    ELSE NoDescribe

\* a variant of getFieldLabel that takes the first descriptor of the
\* snapshot, whatever its name
getFieldLabelOfFirstDescriptor(objectDescribe, fieldName) ==
    IF ~objectDescribe.available \/ ~objectDescribe.hasFields THEN fieldName
    ELSE IF objectDescribe.fields = <<>> THEN fieldName
    ELSE objectDescribe.fields[1].label

getFieldLabel(objectDescribe, fieldName) ==
    IF ~objectDescribe.available \/ ~objectDescribe.hasFields THEN fieldName
    ELSE LET hits == {i \in 1..Len(objectDescribe.fields) :
                        objectDescribe.fields[i].name = fieldName}
         IN IF hits = {} THEN fieldName ELSE objectDescribe.fields[Min(hits)].label

\* objectDescribe ? objectDescribe.label : objName.replace("__c", "")
DisplayName(objName) ==
    LET objectDescribe == getObjectDescribe(objName)
    IN IF objectDescribe.available THEN objectDescribe.label ELSE ReplaceSuffixMarker(objName)

\* a variant of the permission string that writes the three all-records /
\* all-fields flags as one letter each
SingleObjectCodeOneLetter(objPermission) ==
    IF ~objPermission.found THEN "-"
    ELSE LET p == objPermission.value
             permissions ==
                 (IF p.allowCreate THEN "C" ELSE "")
                 \o (IF p.allowRead THEN "R" ELSE "")
                 \o (IF p.allowEdit THEN "U" ELSE "")
                 \o (IF p.allowDelete THEN "D" ELSE "")
                 \o (IF p.viewAllRecords THEN "V" ELSE "")
                 \o (IF p.modifyAllRecords THEN "U" ELSE "")
                 \o (IF p.viewAllFields THEN "F" ELSE "")
         IN IF permissions = "" THEN "-" ELSE permissions

\* the permission string of generateObjectPermissionsTable
SingleObjectCode(objPermission) ==
    IF ~objPermission.found THEN "-"
    ELSE LET p == objPermission.value
             permissions ==
                 (IF p.allowCreate THEN "C" ELSE "")
                 \o (IF p.allowRead THEN "R" ELSE "")
                 \o (IF p.allowEdit THEN "U" ELSE "")
                 \o (IF p.allowDelete THEN "D" ELSE "")
                 \o (IF p.viewAllRecords THEN "Va" ELSE "")
                 \o (IF p.modifyAllRecords THEN "Ua" ELSE "")
                 \o (IF p.viewAllFields THEN "Fa" ELSE "")
         IN IF permissions = "" THEN "-" ELSE permissions

\* a variant that takes its rows from the permission record and not from the
\* manifest list
generateObjectPermissionsTableFromRecord(profileName, objects, meta) ==
    IF meta.root # "Profile" THEN Threw("TypeError")
    ELSE ObjectReport(
        IF meta.label # "" THEN meta.label ELSE profileName,
        <<HdrObjectName, HdrObjectApiName, HdrPermission>>,
        [i \in 1..Len(meta.objectPermissions.list) |->
            <<DisplayName(meta.objectPermissions.list[i].object),
              meta.objectPermissions.list[i].object,
              SingleObjectCode(Found(meta.objectPermissions.list[i]))>>])

\* generateObjectPermissionsTable reads metadata.Profile whatever the kind of
\* the entity: on the parse of a permission set document metadata.Profile is
\* undefined and reading its label raises a TypeError
generateObjectPermissionsTable(profileName, objects, meta) ==
    IF meta.root # "Profile" THEN Threw("TypeError")
    ELSE ObjectReport(
        IF meta.label # "" THEN meta.label ELSE profileName,
        <<HdrObjectName, HdrObjectApiName, HdrPermission>>,
        [i \in 1..Len(objects) |->
            <<DisplayName(objects[i]),
              objects[i],
              SingleObjectCode(FindObjectPermission(meta.objectPermissions, objects[i]))>>])

\* the permission string of generateFieldPermissionsTable
SingleFieldCode(fieldPerm) ==
    IF ~fieldPerm.found THEN "-"
    ELSE IF fieldPerm.value.readable /\ fieldPerm.value.editable THEN "RU"
    ELSE IF fieldPerm.value.readable THEN "R"
    ELSE "-"

\* const [objName, fieldName] = fieldFullName.split(".")
FieldObjName(fieldFullName) == SplitDot(fieldFullName)[1]
FieldFieldName(fieldFullName) ==
    IF Len(SplitDot(fieldFullName)) >= 2 THEN SplitDot(fieldFullName)[2] ELSE "undefined"

\* a variant that renders a row only for the fields of objects that have a
\* usable describe snapshot
HasSnapshot(fieldFullName) == getObjectDescribe(FieldObjName(fieldFullName)).available
generateFieldPermissionsTableOfDescribed(profileName, fields, meta) ==
    IF meta.root # "Profile" THEN Threw("TypeError")
    ELSE FieldReport(
        IF meta.label # "" THEN meta.label ELSE profileName,
        <<HdrObjectName, HdrObjectApiName, HdrFieldName, HdrFieldApiName, HdrPermission>>,
        [i \in 1..Len(SelectSeq(fields, HasSnapshot)) |->
            <<DisplayName(FieldObjName(SelectSeq(fields, HasSnapshot)[i])),
              FieldObjName(SelectSeq(fields, HasSnapshot)[i]),
              FieldFieldName(SelectSeq(fields, HasSnapshot)[i]),
              FieldFieldName(SelectSeq(fields, HasSnapshot)[i]),
              "-">>])

generateFieldPermissionsTable(profileName, fields, meta) ==
    IF meta.root # "Profile" THEN Threw("TypeError")
    ELSE FieldReport(
        IF meta.label # "" THEN meta.label ELSE profileName,
        <<HdrObjectName, HdrObjectApiName, HdrFieldName, HdrFieldApiName, HdrPermission>>,
        [i \in 1..Len(fields) |->
            <<DisplayName(FieldObjName(fields[i])),
              FieldObjName(fields[i]),
              getFieldLabel(getObjectDescribe(FieldObjName(fields[i])), FieldFieldName(fields[i])),
              FieldFieldName(fields[i]),
              SingleFieldCode(FindFieldPermission(meta.fieldPermissions, fields[i]))>>])

\* the permission string of generateAllSummary, permission set columns
SummaryPermissionSetObjectCode(objPermission) ==
    IF ~objPermission.found THEN "-"
    ELSE LET p == objPermission.value
             permissions ==
                 (IF p.allowCreate THEN "C" ELSE "")
                 \o (IF p.allowRead THEN "R" ELSE "")
                 \o (IF p.allowEdit THEN "U" ELSE "")
                 \o (IF p.allowDelete THEN "D" ELSE "")
                 \o (IF p.viewAllRecords THEN "Va" ELSE "")
                 \o (IF p.modifyAllRecords THEN "Ua" ELSE "")
                 \o (IF p.viewAllFields THEN "Fa" ELSE "")
         IN IF permissions = "" THEN "-" ELSE permissions

\* the permission string of generateAllSummary, profile columns
SummaryProfileObjectCode(objPermission) ==
    IF ~objPermission.found THEN "-"
    ELSE LET p == objPermission.value
             permissions ==
                 (IF p.allowCreate THEN "C" ELSE "")
                 \o (IF p.allowRead THEN "R" ELSE "")
                 \o (IF p.allowEdit THEN "U" ELSE "")
                 \o (IF p.allowDelete THEN "D" ELSE "")
                 \o (IF p.viewAllRecords THEN "Va" ELSE "")
                 \o (IF p.modifyAllRecords THEN "Ua" ELSE "")
                 \o (IF p.viewAllFields THEN "Fa" ELSE "")
         IN IF permissions = "" THEN "-" ELSE permissions

\* metadata.PermissionSet / metadata.Profile is undefined on a document of
\* the other kind, and reading a property of it raises a TypeError
SummaryRootsOk(pss, profs, psMeta, profMeta) ==
    /\ \A i \in 1..Len(pss) : psMeta[pss[i]].root = "PermissionSet"
    /\ \A j \in 1..Len(profs) : profMeta[profs[j]].root = "Profile"

\* a variant of the header loops that lists the profiles before the
\* permission sets
SummaryColumnLabelsProfilesFirst(pss, profs, psMeta, profMeta) ==
    [j \in 1..Len(profs) |->
        IF profMeta[profs[j]].label # "" THEN profMeta[profs[j]].label ELSE profs[j]]
    \o [i \in 1..Len(pss) |->
        IF psMeta[pss[i]].label # "" THEN psMeta[pss[i]].label ELSE pss[i]]

\* metadata.<root>.label || name
SummaryColumnLabels(pss, profs, psMeta, profMeta) ==
    [i \in 1..Len(pss) |->
        IF psMeta[pss[i]].label # "" THEN psMeta[pss[i]].label ELSE pss[i]]
    \o [j \in 1..Len(profs) |->
        IF profMeta[profs[j]].label # "" THEN profMeta[profs[j]].label ELSE profs[j]]

\* the object table of generateAllSummary; psMeta and profMeta give the
\* metadata that getPermissionSetMetadata / getProfileMetadata return
SummaryObjectTable(pss, profs, objects, psMeta, profMeta) ==
    IF ~SummaryRootsOk(pss, profs, psMeta, profMeta) THEN Threw("TypeError")
    ELSE ObjectReport(
        "",
        <<HdrObjectName, HdrObjectApiName>> \o SummaryColumnLabels(pss, profs, psMeta, profMeta),
        [r \in 1..Len(objects) |->
            <<DisplayName(objects[r]), objects[r]>>
            \o [i \in 1..Len(pss) |->
                  SummaryPermissionSetObjectCode(
                      FindObjectPermission(psMeta[pss[i]].objectPermissions, objects[r]))]
            \o [j \in 1..Len(profs) |->
                  SummaryProfileObjectCode(
                      FindObjectPermission(profMeta[profs[j]].objectPermissions, objects[r]))]])

\* the permission string of the field table of generateAllSummary,
\* permission set columns
SummaryPermissionSetFieldCode(fieldPerm) ==
    IF ~fieldPerm.found THEN "-"
    ELSE IF fieldPerm.value.readable /\ fieldPerm.value.editable THEN "RU"
    ELSE IF fieldPerm.value.readable THEN "R"
    ELSE "-"

\* the permission string of the field table of generateAllSummary, profile
\* columns
SummaryProfileFieldCode(fieldPerm) ==
    IF ~fieldPerm.found THEN "-"
    ELSE IF fieldPerm.value.readable /\ fieldPerm.value.editable THEN "RU"
    ELSE IF fieldPerm.value.readable THEN "R"
    ELSE "-"

\* the field table of generateAllSummary
SummaryFieldTable(pss, profs, fields, psMeta, profMeta) ==
    IF ~SummaryRootsOk(pss, profs, psMeta, profMeta) THEN Threw("TypeError")
    ELSE FieldReport(
        "",
        <<HdrObjectName, HdrObjectApiName, HdrFieldName, HdrFieldApiName>>
            \o SummaryColumnLabels(pss, profs, psMeta, profMeta),
        [r \in 1..Len(fields) |->
            <<DisplayName(FieldObjName(fields[r])),
              FieldObjName(fields[r]),
              getFieldLabel(getObjectDescribe(FieldObjName(fields[r])), FieldFieldName(fields[r])),
              FieldFieldName(fields[r])>>
            \o [i \in 1..Len(pss) |->
                  SummaryPermissionSetFieldCode(
                      FindFieldPermission(psMeta[pss[i]].fieldPermissions, fields[r]))]
            \o [j \in 1..Len(profs) |->
                  SummaryProfileFieldCode(
                      FindFieldPermission(profMeta[profs[j]].fieldPermissions, fields[r]))]])

----------------------------------------------------------------------------
(* SpecTable: the table generators on bounded inputs *)

TableOps == {"singleObject", "summaryObject", "singleField", "summaryField"}

\* the permission sets and profiles a summary over the one entity iterates
SummaryPermissionSets == IF metadata.root = "PermissionSet" THEN <<entityName>> ELSE <<>>
SummaryProfiles == IF metadata.root = "Profile" THEN <<entityName>> ELSE <<>>
LoadedMetadata == [n \in {entityName} |-> metadata]

TableInit ==
    /\ entityName = "Sales"
    /\ \E kind \in EntityKinds, label \in {"", "Sales Team"} :
         \/ /\ customObjects \in SeqUpTo(ManifestObjects, MaxRows)
            /\ customFields = <<>>
            /\ describeData \in DescribeCaches
            /\ \E objs \in ObjectSections : metadata = Metadata(kind, label, objs, NoSection)
         \/ /\ customObjects = <<>>
            /\ customFields \in SeqUpTo(ManifestFields, MaxRows)
            /\ customFields # <<>>
            /\ describeData \in FieldDescribeCaches
            /\ \E flds \in FieldSections : metadata = Metadata(kind, label, NoSection, flds)
    /\ table = [op \in TableOps |-> NotRun]
    /\ extracted = [op \in TableOps |-> NotExtracted]
    /\ packageXml = <<>>
    /\ reader = [op |-> "none"]
    /\ RunIdle

\* createDesignFolder / main's profile branch: the object table of one entity
SingleObjectTable ==
    /\ customFields = <<>>
    /\ ~table["singleObject"].ran
    /\ table' = [table EXCEPT !["singleObject"] =
                    generateObjectPermissionsTable(entityName, customObjects, metadata)]
    /\ UNCHANGED <<customObjects, customFields, entityName, metadata, describeData, extracted>>
    /\ UNCHANGED manifestVars
    /\ UNCHANGED runVars

\* createDesignFolder / main's profile branch: the field table of one entity
SingleFieldTable ==
    /\ customFields # <<>>
    /\ ~table["singleField"].ran
    /\ table' = [table EXCEPT !["singleField"] =
                    generateFieldPermissionsTable(entityName, customFields, metadata)]
    /\ UNCHANGED <<customObjects, customFields, entityName, metadata, describeData, extracted>>
    /\ UNCHANGED manifestVars
    /\ UNCHANGED runVars

\* generateAllSummary: the object table
SummaryObject ==
    /\ customFields = <<>>
    /\ ~table["summaryObject"].ran
    /\ table' = [table EXCEPT !["summaryObject"] =
                    SummaryObjectTable(SummaryPermissionSets, SummaryProfiles, customObjects,
                                       LoadedMetadata, LoadedMetadata)]
    /\ UNCHANGED <<customObjects, customFields, entityName, metadata, describeData, extracted>>
    /\ UNCHANGED manifestVars
    /\ UNCHANGED runVars

\* generateAllSummary: the field table
SummaryField ==
    /\ customFields # <<>>
    /\ ~table["summaryField"].ran
    /\ table' = [table EXCEPT !["summaryField"] =
                    SummaryFieldTable(SummaryPermissionSets, SummaryProfiles, customFields,
                                      LoadedMetadata, LoadedMetadata)]
    /\ UNCHANGED <<customObjects, customFields, entityName, metadata, describeData, extracted>>
    /\ UNCHANGED manifestVars
    /\ UNCHANGED runVars

TableNext == SingleObjectTable \/ SingleFieldTable \/ SummaryObject \/ SummaryField

SpecTable == TableInit /\ [][TableNext]_vars

----------------------------------------------------------------------------
(* Claims about the table generators, checked under SpecTable *)

AnyObjectFlag(e) ==
    \/ e.allowCreate \/ e.allowRead \/ e.allowEdit \/ e.allowDelete
    \/ e.viewAllRecords \/ e.modifyAllRecords \/ e.viewAllFields

\* the seven flags of an entry in the order C, R, U, D, Va, Ua, Fa, each with
\* its token
FlagTokens(e) ==
    <<[on |-> e.allowCreate, token |-> "C"], [on |-> e.allowRead, token |-> "R"],
      [on |-> e.allowEdit, token |-> "U"], [on |-> e.allowDelete, token |-> "D"],
      [on |-> e.viewAllRecords, token |-> "Va"], [on |-> e.modifyAllRecords, token |-> "Ua"],
      [on |-> e.viewAllFields, token |-> "Fa"]>>

IsOn(ft) == ft.on

\* the tokens of the true flags, in the fixed order, and no other token
ExpectedObjectCode(e) ==
    LET on == SelectSeq(FlagTokens(e), IsOn)
    IN Join([i \in 1..Len(on) |-> on[i].token], "")

\* the permission cell of row r of a table over one entity: the last cell
PermissionCell(t, r) == t.rows[r][Len(t.rows[r])]

ObjectTableOps == {"singleObject", "summaryObject"}
FieldTableOps == {"singleField", "summaryField"}

\* the entry the permission record of the entity holds for a manifest member
ObjectEntryOf(objName) == FindObjectPermission(metadata.objectPermissions, objName)
FieldEntryOf(fieldFullName) == FindFieldPermission(metadata.fieldPermissions, fieldFullName)

\* C1: for every object-permission entry with at least one true flag, the
\* single-entity table and the summary table, of a permission set and of a
\* profile alike, show the concatenation in the order C, R, U, D, Va, Ua, Fa
\* of the tokens of exactly the true flags.
C1_ObjectCodeInEveryTable ==
    \A op \in ObjectTableOps : table[op].ran =>
        \A r \in 1..Len(customObjects) :
            LET f == ObjectEntryOf(customObjects[r])
            IN (f.found /\ AnyObjectFlag(f.value)) =>
                  /\ table[op].err = "none"
                  /\ PermissionCell(table[op], r) = ExpectedObjectCode(f.value)

\* C2: a permission cell is "-" whenever the record has no entry for the
\* row's object or field (no section at all included) or an entry with no
\* true flag; no error is raised and no other cell value is rendered.
C2_SentinelForNoPermission ==
    /\ \A op \in ObjectTableOps : table[op].ran =>
          \A r \in 1..Len(customObjects) :
              LET f == ObjectEntryOf(customObjects[r])
              IN (~f.found \/ ~AnyObjectFlag(f.value)) =>
                    /\ table[op].err = "none"
                    /\ PermissionCell(table[op], r) = "-"
    /\ \A op \in FieldTableOps : table[op].ran =>
          \A r \in 1..Len(customFields) :
              LET f == FieldEntryOf(customFields[r])
              IN (~f.found \/ ~(f.value.readable \/ f.value.editable)) =>
                    /\ table[op].err = "none"
                    /\ PermissionCell(table[op], r) = "-"

\* the code C3 states for a field-permission entry
ExpectedFieldCode(e) ==
    CASE e.readable /\ e.editable -> "RU"
      [] e.readable /\ ~e.editable -> "R"
      [] OTHER -> "-"

\* C3: for every field-permission entry the single-entity and the summary
\* field table show "RU" when readable and editable are true, "R" when only
\* readable is true, and "-" otherwise (editable without readable included).
C3_FieldCodeInEveryTable ==
    \A op \in FieldTableOps : table[op].ran =>
        \A r \in 1..Len(customFields) :
            LET f == FieldEntryOf(customFields[r])
            IN f.found =>
                  /\ table[op].err = "none"
                  /\ PermissionCell(table[op], r) = ExpectedFieldCode(f.value)

\* the identifier of row r: the object API name cell of an object table, the
\* object and field API name cells joined by "." of a field table
RowIdentifier(op, r) ==
    IF op \in ObjectTableOps THEN table[op].rows[r][2]
    ELSE Join(<<table[op].rows[r][2], table[op].rows[r][4]>>, ".")

MemberList(op) == IF op \in ObjectTableOps THEN customObjects ELSE customFields

\* C4: in every generated matrix the row identifiers are the manifest's
\* member list: one row per member, in manifest order, duplicates kept, and
\* nothing that only the permission record names.
C4_RowsAreManifestMembers ==
    \A op \in TableOps : (table[op].ran /\ table[op].err = "none") =>
        /\ Len(table[op].rows) = Len(MemberList(op))
        /\ \A r \in 1..Len(table[op].rows) : RowIdentifier(op, r) = MemberList(op)[r]

\* C4's case: tables were generated from a manifest list that is not sorted,
\* resp. holds a duplicate, while the record names an object that the
\* manifest does not list
C4_Witness ==
    /\ table["summaryObject"].ran /\ table["summaryObject"].err = "none"
    /\ table["singleObject"].ran /\ table["singleObject"].err = "none"
    /\ customObjects = <<"Custom__c", "Account">>
    /\ metadata.objectPermissions.present
    /\ \E i \in 1..Len(metadata.objectPermissions.list) :
          metadata.objectPermissions.list[i].object = RecordOnlyObject

----------------------------------------------------------------------------
(* The manifest readers *)

\* the characters of the member names of the model
NameChars == {<<"A", "c", "c", "o", "u", "n", "t">>, <<"S", "a", "l", "e", "s">>}
MemberNames == {Join(c, "") : c \in NameChars}

\* the characters a for...of loop over a string yields
CharsOf(s) == CHOOSE c \in NameChars : Join(c, "") = s

TypeNames == {"CustomObject", "PermissionSet", "Profile"}

\* a types entry of the document: its name and its members entries
TypesEntries == [name : TypeNames, members : SeqUpTo(MemberNames, MaxMembers)]

\* the manifests of the model: well-formed XML, 0..MaxTypes types entries
PackageXmls == SeqUpTo(TypesEntries, MaxTypes)

\* JavaScript values the parser and the readers give
JsUndefined == [kind |-> "undefined"]
JsString(s) == [kind |-> "string", value |-> s]
JsArray(items) == [kind |-> "array", items |-> items]
JsObject(name, members) == [kind |-> "object", name |-> name, members |-> members]

\* fast-xml-parser: a tag listed by isArray always parses to an array; any
\* other tag parses to undefined when absent, to the bare value when it
\* occurs once and to an array when it occurs more than once
ParseRepeated(items, alwaysArray) ==
    IF Len(items) = 0 THEN JsUndefined
    ELSE IF Len(items) = 1 /\ ~alwaysArray THEN items[1]
    ELSE JsArray(items)

\* new XMLParser({isArray: (name) => name === "members"}).parse(xmlContent)
\*   .Package.types
ParseTypesMembersAsArray(doc) ==
    ParseRepeated(
        [i \in 1..Len(doc) |->
            JsObject(doc[i].name,
                     ParseRepeated([k \in 1..Len(doc[i].members) |-> JsString(doc[i].members[k])],
                                   TRUE))],
        FALSE)

\* new XMLParser().parse(packageXmlContent).Package.types
ParseTypesDefault(doc) ==
    ParseRepeated(
        [i \in 1..Len(doc) |->
            JsObject(doc[i].name,
                     ParseRepeated([k \in 1..Len(doc[i].members) |-> JsString(doc[i].members[k])],
                                   FALSE))],
        FALSE)

Returned(v) == [threw |-> FALSE, value |-> v]
TypeError == [threw |-> TRUE, value |-> JsUndefined]

\* types.find((type) => type.name === typeName), then
\* found ? found.members : []
\* find is a method of arrays only: calling it on undefined (no types entry)
\* or on an object (one types entry) raises a TypeError
MembersOfType(types, typeName) ==
    IF types.kind # "array" THEN TypeError
    ELSE LET hits == {i \in 1..Len(types.items) : types.items[i].name = typeName}
         IN IF hits = {} THEN Returned(JsArray(<<>>))
            ELSE Returned(types.items[Min(hits)].members)

getCustomObjectsFromPackageXml(doc) ==
    MembersOfType(ParseTypesMembersAsArray(doc), "CustomObject")

getCustomFieldsFromPackageXml(doc) ==
    MembersOfType(ParseTypesMembersAsArray(doc), "CustomField")

\* a variant that offers the profiles as permission sets when the manifest
\* lists no permission set
getPermissionSetsOrProfilesFromPackageXml(doc) ==
    LET pss == MembersOfType(ParseTypesMembersAsArray(doc), "PermissionSet")
        profs == MembersOfType(ParseTypesMembersAsArray(doc), "Profile")
    IN IF pss.threw \/ profs.threw THEN [threw |-> TRUE]
       ELSE [threw |-> FALSE,
             permissionSets |-> IF pss.value.kind = "array" /\ pss.value.items = <<>>
                                THEN profs.value ELSE pss.value,
             profiles |-> profs.value]

\* returns {permissionSets, profiles}
getPermissionSetsFromPackageXml(doc) ==
    LET pss == MembersOfType(ParseTypesMembersAsArray(doc), "PermissionSet")
        profs == MembersOfType(ParseTypesMembersAsArray(doc), "Profile")
    IN IF pss.threw \/ profs.threw THEN [threw |-> TRUE]
       ELSE [threw |-> FALSE, permissionSets |-> pss.value, profiles |-> profs.value]

\* the describe fetcher's package.xml option:
\*   Array.isArray(types)
\*     ? types.find((type) => type.name === "CustomObject")?.members || []
\*     : types?.name === "CustomObject" ? [types.members].flat() : []
\* a members value that is a bare string is truthy and is kept as it is
DescribeCustomObjectMembers(doc) ==
    LET types == ParseTypesDefault(doc)
    IN IF types.kind = "array"
       THEN LET hits == {i \in 1..Len(types.items) : types.items[i].name = "CustomObject"}
            IN IF hits = {} THEN JsArray(<<>>)
               ELSE IF types.items[Min(hits)].members.kind = "undefined" THEN JsArray(<<>>)
               ELSE types.items[Min(hits)].members
       ELSE IF types.kind = "object" /\ types.name = "CustomObject"
       THEN IF types.members.kind = "array" THEN types.members
            ELSE JsArray(<<types.members>>)
       ELSE JsArray(<<>>)

\* value.length of an array or of a string
JsLength(v) == IF v.kind = "array" THEN Len(v.items) ELSE Len(CharsOf(v.value))

\* what for (const objectName of v) binds objectName to, as the name it is
\* used as: the elements of an array, the characters of a string
IterationOf(v) ==
    IF v.kind = "array"
    THEN [i \in 1..Len(v.items) |->
            IF v.items[i].kind = "string" THEN v.items[i].value ELSE "undefined"]
    ELSE CharsOf(v.value)

\* the objects of the org: conn.sobject(name).describe() succeeds on these
\* and raises an error on any other name
OrgObjects == MemberNames

\* the describe loop: the describe calls made, in order, and the exit status;
\* a failing describe call ends the loop and the process with status 1
DescribeLoop(names) ==
    LET bad == {i \in 1..Len(names) : names[i] \notin OrgObjects}
    IN IF bad = {} THEN [calls |-> names, exit |-> 0]
       ELSE [calls |-> SubSeq(names, 1, Min(bad)), exit |-> 1]

\* the describe loop's fs.existsSync(targetDir) / fs.mkdirSync(targetDir):
\* the directory is made inside the loop, after a describe call has returned,
\* so that it exists afterwards when it existed before or when one describe
\* call has succeeded
SucceededCalls(loop) == IF loop.exit = 0 THEN Len(loop.calls) ELSE Len(loop.calls) - 1
TargetDirAfter(loop, existed) == existed \/ SucceededCalls(loop) > 0

\* scripts/jsforce/describe.js: login, describe of Account, mkdir, write; an
\* error is caught and logged and the process ends with status 0
DescribeAccountLoop(orgAnswers) ==
    IF orgAnswers THEN [calls |-> <<"Account">>, exit |-> 0, logged |-> FALSE, saved |-> 1]
    ELSE [calls |-> <<"Account">>, exit |-> 0, logged |-> TRUE, saved |-> 0]

----------------------------------------------------------------------------
(* SpecManifest: the manifest readers on bounded manifests *)

ManifestInit ==
    /\ packageXml \in PackageXmls
    /\ reader = [op |-> "none"]
    /\ customObjects = <<>>
    /\ customFields = <<>>
    /\ entityName = ""
    /\ metadata = Metadata("Profile", "", NoSection, NoSection)
    /\ describeData = <<>>
    /\ table = [op \in TableOps |-> NotRun]
    /\ extracted = [op \in TableOps |-> NotExtracted]
    /\ RunIdle

ReadCustomObjects ==
    /\ reader.op = "none"
    /\ reader' = [op |-> "getCustomObjects",
                  result |-> getCustomObjectsFromPackageXml(packageXml)]
    /\ UNCHANGED packageXml
    /\ UNCHANGED tableVars
    /\ UNCHANGED runVars

ReadCustomFields ==
    /\ reader.op = "none"
    /\ reader' = [op |-> "getCustomFields",
                  result |-> getCustomFieldsFromPackageXml(packageXml)]
    /\ UNCHANGED packageXml
    /\ UNCHANGED tableVars
    /\ UNCHANGED runVars

ReadPermissionSets ==
    /\ reader.op = "none"
    /\ reader' = [op |-> "getPermissionSets",
                  result |-> getPermissionSetsFromPackageXml(packageXml)]
    /\ UNCHANGED packageXml
    /\ UNCHANGED tableVars
    /\ UNCHANGED runVars

\* the describe fetcher with usePackageXml confirmed; picked is what the user
\* ticks in the selection prompt shown when the manifest gives no CustomObject
DescribeFromPackageXml ==
    /\ reader.op = "none"
    /\ \E picked \in SeqUpTo(OrgObjects, 1), existed \in BOOLEAN :
         LET customObjectMembers == DescribeCustomObjectMembers(packageXml)
             selectedObjects == IF JsLength(customObjectMembers) = 0
                                THEN JsArray([i \in 1..Len(picked) |-> JsString(picked[i])])
                                ELSE customObjectMembers
         IN reader' = [op |-> "describe",
                       fromManifest |-> JsLength(customObjectMembers) # 0,
                       selectedObjects |-> selectedObjects,
                       loop |-> DescribeLoop(IterationOf(selectedObjects)),
                       logged |-> DescribeLoop(IterationOf(selectedObjects)).exit # 0,
                       targetDirExisted |-> existed,
                       targetDirExists |->
                           TargetDirAfter(DescribeLoop(IterationOf(selectedObjects)), existed)]
    /\ UNCHANGED packageXml
    /\ UNCHANGED tableVars
    /\ UNCHANGED runVars

\* the describe fetcher without the package.xml option: the objects are the
\* ones ticked in the selection prompt, none included
DescribeFromPrompt ==
    /\ reader.op = "none"
    /\ \E picked \in SeqUpTo(OrgObjects, 1), existed \in BOOLEAN :
         reader' = [op |-> "describePrompt",
                    fromManifest |-> FALSE,
                    selectedObjects |-> JsArray([i \in 1..Len(picked) |-> JsString(picked[i])]),
                    loop |-> DescribeLoop(picked),
                    logged |-> DescribeLoop(picked).exit # 0,
                    targetDirExisted |-> existed,
                    targetDirExists |-> TargetDirAfter(DescribeLoop(picked), existed)]
    /\ UNCHANGED packageXml
    /\ UNCHANGED tableVars
    /\ UNCHANGED runVars

\* scripts/jsforce/describe.js, the script npm run sf:describe:object starts
DescribeAccount ==
    /\ reader.op = "none"
    /\ \E orgAnswers \in BOOLEAN, existed \in BOOLEAN :
         reader' = [op |-> "describeAccount",
                    fromManifest |-> FALSE,
                    selectedObjects |-> JsArray(<<JsString("Account")>>),
                    loop |-> [calls |-> DescribeAccountLoop(orgAnswers).calls,
                              exit |-> DescribeAccountLoop(orgAnswers).exit],
                    logged |-> DescribeAccountLoop(orgAnswers).logged,
                    targetDirExisted |-> existed,
                    targetDirExists |-> existed \/ DescribeAccountLoop(orgAnswers).saved > 0]
    /\ UNCHANGED packageXml
    /\ UNCHANGED tableVars
    /\ UNCHANGED runVars

ManifestNext ==
    \/ ReadCustomObjects
    \/ ReadCustomFields
    \/ ReadPermissionSets
    \/ DescribeFromPackageXml
    \/ DescribeFromPrompt
    \/ DescribeAccount

SpecManifest == ManifestInit /\ [][ManifestNext]_vars

----------------------------------------------------------------------------
(* Claims about the manifest readers, checked under SpecManifest *)

\* the types entries of the manifest that name a metadata type
EntriesOf(typeName) == {i \in 1..Len(packageXml) : packageXml[i].name = typeName}

\* the manifest lists the type once, with the members ms
ListsOnce(typeName, ms) ==
    /\ Cardinality(EntriesOf(typeName)) = 1
    /\ \A i \in EntriesOf(typeName) : packageXml[i].members = ms

\* a reader's result is the sequence ms, in order
IsSequence(result, ms) ==
    /\ ~result.threw
    /\ result.value = JsArray([k \in 1..Len(ms) |-> JsString(ms[k])])

\* what a reader of the report generator gave for a type, once it ran
ReaderResult(typeName) ==
    CASE reader.op = "getCustomObjects" /\ typeName = "CustomObject" -> reader.result
      [] reader.op = "getCustomFields" /\ typeName = "CustomField" -> reader.result
      [] reader.op = "getPermissionSets" /\ typeName = "PermissionSet" ->
            IF reader.result.threw THEN TypeError ELSE Returned(reader.result.permissionSets)
      [] reader.op = "getPermissionSets" /\ typeName = "Profile" ->
            IF reader.result.threw THEN TypeError ELSE Returned(reader.result.profiles)

ReaderRanFor(typeName) ==
    \/ reader.op = "getCustomObjects" /\ typeName = "CustomObject"
    \/ reader.op = "getCustomFields" /\ typeName = "CustomField"
    \/ reader.op = "getPermissionSets" /\ typeName \in {"PermissionSet", "Profile"}

RequestedTypes == {"CustomObject", "CustomField", "PermissionSet", "Profile"}

\* C5: for a manifest that lists a type with N >= 1 members, whatever the
\* number of its types entries, the reader called for that type returns
\* exactly these N members in document order.
C5_ReaderReturnsMembersInOrder ==
    \A typeName \in RequestedTypes, ms \in SeqUpTo(MemberNames, MaxMembers) :
        (ReaderRanFor(typeName) /\ Len(ms) >= 1 /\ ListsOnce(typeName, ms)) =>
            IsSequence(ReaderResult(typeName), ms)

\* C6: for every manifest, whatever the number of its types entries,
\* requesting a type that the manifest does not list returns the empty
\* sequence and raises no error.
C6_AbsentTypeGivesEmptySequence ==
    \A typeName \in RequestedTypes :
        (ReaderRanFor(typeName) /\ EntriesOf(typeName) = {}) =>
            IsSequence(ReaderResult(typeName), <<>>)

\* C7: for a type with exactly one member every manifest reader yields the
\* one-element sequence holding that member, never a bare scalar, and the
\* describe fetcher then describes exactly one object, the member.
C7_SingleMemberIsSequence ==
    /\ \A typeName \in RequestedTypes, m \in MemberNames :
          (ReaderRanFor(typeName) /\ ListsOnce(typeName, <<m>>)) =>
              IsSequence(ReaderResult(typeName), <<m>>)
    /\ \A m \in MemberNames :
          (reader.op = "describe" /\ ListsOnce("CustomObject", <<m>>)) =>
              /\ reader.selectedObjects = JsArray(<<JsString(m)>>)
              /\ reader.loop.calls = <<m>>

----------------------------------------------------------------------------
(* Spec: a run of main() *)

\* the members of a reader's array, as plain strings
Items(v) == [i \in 1..Len(v.items) |-> v.items[i].value]

\* the manifests of a run: the permission sets and profiles listed, with or
\* without one CustomObject and one CustomField; a type without members has
\* no types entry
RunManifest(withObjects, pss, profs) ==
    (IF withObjects
     THEN <<[name |-> "CustomObject", members |-> <<"Account">>],
            [name |-> "CustomField", members |-> <<"Account.Name">>]>>
     ELSE <<>>)
    \o (IF pss = <<>> THEN <<>> ELSE <<[name |-> "PermissionSet", members |-> pss]>>)
    \o (IF profs = <<>> THEN <<>> ELSE <<[name |-> "Profile", members |-> profs]>>)

\* the content of the metadata documents of the model, when present
RunMetadata(kind, name) ==
    IF kind = "PermissionSet" /\ name = "Sales"
    THEN Metadata("PermissionSet", "Sales Team",
            Section(<<[object |-> "Account", allowCreate |-> TRUE, allowRead |-> TRUE,
                       allowEdit |-> FALSE, allowDelete |-> FALSE, viewAllRecords |-> FALSE,
                       modifyAllRecords |-> FALSE, viewAllFields |-> FALSE]>>),
            Section(<<[field |-> "Account.Name", readable |-> TRUE, editable |-> TRUE]>>))
    ELSE IF kind = "PermissionSet"
    THEN Metadata("PermissionSet", "", NoSection, NoSection)
    ELSE Metadata("Profile", "",
            Section(<<[object |-> "Account", allowCreate |-> TRUE, allowRead |-> TRUE,
                       allowEdit |-> TRUE, allowDelete |-> TRUE, viewAllRecords |-> TRUE,
                       modifyAllRecords |-> TRUE, viewAllFields |-> TRUE]>>),
            Section(<<[field |-> "Account.Name", readable |-> TRUE, editable |-> FALSE]>>))

\* the temporary manifest retrievePermissionSet writes
TempPackageXml(permissionSetName) ==
    <<[name |-> "PermissionSet", members |-> <<permissionSetName>>]>>

RunInit ==
    /\ \E withObjects \in BOOLEAN, pss \in SeqUpTo(EntityNames, MaxPermissionSets),
          profs \in SeqUpTo(ProfileNames, MaxProfiles) :
         /\ packageXml = RunManifest(withObjects, pss, profs)
         /\ docs \in [EntityKinds -> [EntityNames -> DocStates]]
         \* a document the manifest does not list plays no part: it is absent
         /\ \A n \in EntityNames :
              /\ n \notin Range(pss) => docs["PermissionSet"][n] = "absent"
              /\ n \notin Range(profs) => docs["Profile"][n] = "absent"
    /\ reader = [op |-> "none"]
    /\ customObjects = <<>>
    /\ customFields = <<>>
    /\ entityName = ""
    /\ metadata = Metadata("Profile", "", NoSection, NoSection)
    /\ describeData \in FieldDescribeCaches
    /\ table = [op \in TableOps |-> NotRun]
    /\ extracted = [op \in TableOps |-> NotExtracted]
    /\ dirs = {}
    /\ files = <<>>
    /\ tempDir = "none"
    /\ permissionSets = <<>>
    /\ profiles = <<>>
    /\ selected = ""
    /\ pc = Pc("start", "", 0, 0)
    /\ load = NoLoad
    /\ reads = [k \in EntityKinds |-> [n \in EntityNames |-> 0]]
    /\ retrieveLog = <<>>
    /\ status = "running"
    /\ stderr = <<>>
    /\ firstRun = NoFirstRun
    /\ canvas = NoCanvas
    /\ choice = NoChoice

\* process.exit(code) / the end of main
Exit(code, messages) ==
    /\ status' = code
    /\ stderr' = stderr \o messages

\* main: getPermissionSetsFromPackageXml and the check of its result; a
\* TypeError of the reader, or of profiles.map on an undefined profiles, goes
\* to main's catch
MainStart ==
    /\ status = "running" /\ pc.at = "start"
    /\ LET r == getPermissionSetsFromPackageXml(packageXml)
       IN IF r.threw
          THEN /\ Exit("exit1", <<"Error:">>)
               /\ UNCHANGED <<permissionSets, profiles, pc>>
          ELSE IF r.permissionSets.kind # "array" \/ JsLength(r.permissionSets) = 0
          THEN /\ Exit("exit1", <<"No permission sets found in package.xml">>)
               /\ UNCHANGED <<permissionSets, profiles, pc>>
          ELSE IF r.profiles.kind # "array"
          THEN /\ Exit("exit1", <<"Error:">>)
               /\ UNCHANGED <<permissionSets, profiles, pc>>
          ELSE /\ permissionSets' = Items(r.permissionSets)
               /\ profiles' = Items(r.profiles)
               /\ pc' = Pc("prompt", "", 0, 0)
               /\ UNCHANGED <<status, stderr>>
    /\ UNCHANGED <<docs, dirs, files, tempDir, selected, load, reads, retrieveLog>>
    /\ UNCHANGED tableVars
    /\ UNCHANGED manifestVars
    /\ UNCHANGED firstRun
    /\ UNCHANGED canvas
    /\ UNCHANGED choice

\* inquirer.prompt: the value of the chosen entry
\* the choices of the selection prompt: the two bulk commands, then one entry
\* per permission set, then one per profile; the value of an entry of an
\* entity is its name
MenuChoices(pss, profs) ==
    {[kind |-> "All", name |-> "", value |-> "All"],
     [kind |-> "All summary", name |-> "", value |-> "All summary"]}
    \cup {[kind |-> "PermissionSet", name |-> pss[i], value |-> pss[i]] : i \in 1..Len(pss)}
    \cup {[kind |-> "Profile", name |-> profs[i], value |-> profs[i]] : i \in 1..Len(profs)}

Prompt ==
    /\ status = "running" /\ pc.at = "prompt"
    /\ \E c \in MenuChoices(permissionSets, profiles) :
         /\ firstRun.done => c.value = firstRun.selected
         /\ choice' = c
         /\ selected' = c.value
    /\ pc' = Pc("dispatch", "", 0, 0)
    /\ UNCHANGED <<docs, dirs, files, tempDir, permissionSets, profiles, load, reads,
                   retrieveLog, status, stderr>>
    /\ UNCHANGED tableVars
    /\ UNCHANGED manifestVars
    /\ UNCHANGED firstRun
    /\ UNCHANGED canvas

\* the permission sets generateAllDesigns, or the single selection, goes through
Targets == IF selected = "All" THEN permissionSets ELSE <<selected>>

\* main: getCustomFieldsFromPackageXml and the branch on the selection
Dispatch ==
    /\ status = "running" /\ pc.at = "dispatch"
    /\ LET r == getCustomFieldsFromPackageXml(packageXml)
       IN IF r.threw \/ r.value.kind # "array"
          THEN /\ Exit("exit1", <<"Error:">>)
               /\ UNCHANGED <<customFields, pc>>
          ELSE /\ customFields' = Items(r.value)
               /\ pc' = IF selected = "All" THEN Pc("designs", "call", 0, 1)
                        ELSE IF selected = "All summary" THEN Pc("summary", "mkdir", 0, 0)
                        ELSE IF selected \in Range(permissionSets) THEN Pc("designs", "call", 0, 1)
                        ELSE Pc("profile", "call", 0, 0)
               /\ UNCHANGED <<status, stderr>>
    /\ UNCHANGED <<docs, dirs, files, tempDir, permissionSets, profiles, selected, load,
                   reads, retrieveLog>>
    /\ UNCHANGED <<customObjects, entityName, metadata, describeData, table, extracted>>
    /\ UNCHANGED manifestVars
    /\ UNCHANGED firstRun
    /\ UNCHANGED canvas
    /\ UNCHANGED choice

\* the entity the loader is called for at the current position of main
SiteKind ==
    IF pc.at = "profile" THEN "Profile"
    ELSE IF pc.at = "designs" THEN "PermissionSet"
    ELSE IF pc.c <= Len(permissionSets) THEN "PermissionSet" ELSE "Profile"

SiteName ==
    IF pc.at = "profile" THEN selected
    ELSE IF pc.at = "designs" THEN Targets[pc.c]
    ELSE IF pc.c <= Len(permissionSets) THEN permissionSets[pc.c]
    ELSE profiles[pc.c - Len(permissionSets)]

\* error.code of a failed fs.readFile
ReadErrorCode(docState) == IF docState = "absent" THEN "ENOENT" ELSE "other"

\* a variant of the catch of getPermissionSetMetadata that retrieves after
\* any error of the first read
RecoversFromAnyError(code) == TRUE

\* getPermissionSetMetadata's catch: if (error.code === "ENOENT")
RecoversFrom(code) == code = "ENOENT"

CountRead(kind, name) == [reads EXCEPT ![kind][name] = @ + 1]

\* getPermissionSetMetadata up to the end of its first fs.readFile: the parse
\* is returned, or the catch calls retrievePermissionSet, or rethrows
ReadLocal ==
    /\ status = "running" /\ pc.sub = "call" /\ SiteKind = "PermissionSet"
    /\ LET name == SiteName
           state == docs["PermissionSet"][name]
           started == [NoLoad EXCEPT !.kind = "PermissionSet", !.name = name, !.reads = 1]
       IN /\ reads' = CountRead("PermissionSet", name)
          /\ load' = IF state = "present"
                     THEN [started EXCEPT !.pc = "returned", !.first = "ok"]
                     ELSE IF RecoversFrom(ReadErrorCode(state))
                     THEN [started EXCEPT !.pc = "mkdir", !.first = ReadErrorCode(state),
                                          !.calls = 1]
                     ELSE [started EXCEPT !.pc = "threw", !.first = ReadErrorCode(state),
                                          !.cause = "read1"]
    /\ pc' = [pc EXCEPT !.sub = "await"]
    /\ UNCHANGED <<docs, dirs, files, tempDir, permissionSets, profiles, selected,
                   retrieveLog, status, stderr>>
    /\ UNCHANGED tableVars
    /\ UNCHANGED manifestVars
    /\ UNCHANGED firstRun
    /\ UNCHANGED canvas
    /\ UNCHANGED choice

\* retrievePermissionSet's catch: console.error(...); throw error
RetrieveFailed(step) ==
    /\ load' = [load EXCEPT !.pc = "threw", !.cause = step]
    /\ stderr' = Append(stderr, "Error retrieving permission set")

\* retrievePermissionSet: fs.mkdir(".temp", {recursive: true})
RetrieveMkdir ==
    /\ status = "running" /\ load.pc = "mkdir"
    /\ \/ /\ tempDir' = IF tempDir = "none" THEN "dir" ELSE tempDir
          /\ load' = [load EXCEPT !.pc = "write"]
          /\ UNCHANGED stderr
       \/ /\ RetrieveFailed("mkdir")
          /\ UNCHANGED tempDir
    /\ UNCHANGED <<docs, dirs, files, permissionSets, profiles, selected, pc, reads,
                   retrieveLog, status>>
    /\ UNCHANGED tableVars
    /\ UNCHANGED manifestVars
    /\ UNCHANGED firstRun
    /\ UNCHANGED canvas
    /\ UNCHANGED choice

\* retrievePermissionSet: fs.writeFile(".temp/package.xml", tempPackageXml)
RetrieveWriteManifest ==
    /\ status = "running" /\ load.pc = "write"
    /\ \/ /\ tempDir' = "manifest"
          /\ load' = [load EXCEPT !.pc = "exec", !.manifest = TempPackageXml(load.name)]
          /\ UNCHANGED stderr
       \/ /\ RetrieveFailed("write")
          /\ UNCHANGED tempDir
    /\ UNCHANGED <<docs, dirs, files, permissionSets, profiles, selected, pc, reads,
                   retrieveLog, status>>
    /\ UNCHANGED tableVars
    /\ UNCHANGED manifestVars
    /\ UNCHANGED firstRun
    /\ UNCHANGED canvas
    /\ UNCHANGED choice

\* retrievePermissionSet: execSync("sf project retrieve start -x .temp/package.xml")
\* a successful command leaves the document in place when the org has the
\* permission set and leaves the directory as it was when it has not; a
\* non-zero exit status makes execSync throw
RetrieveExec ==
    /\ status = "running" /\ load.pc = "exec"
    /\ retrieveLog' = Append(retrieveLog, load.manifest)
    /\ \/ /\ docs' \in {docs, [docs EXCEPT !["PermissionSet"][load.name] = "present"]}
          /\ load' = [load EXCEPT !.pc = "rm", !.retrievals = @ + 1]
          /\ UNCHANGED stderr
       \/ /\ load' = [load EXCEPT !.pc = "threw", !.cause = "exec", !.retrievals = @ + 1]
          /\ stderr' = Append(stderr, "Error retrieving permission set")
          /\ UNCHANGED docs
    /\ UNCHANGED <<dirs, files, tempDir, permissionSets, profiles, selected, pc, reads,
                   status>>
    /\ UNCHANGED tableVars
    /\ UNCHANGED manifestVars
    /\ UNCHANGED firstRun
    /\ UNCHANGED canvas
    /\ UNCHANGED choice

\* retrievePermissionSet: fs.rm(".temp", {recursive: true, force: true})
RetrieveCleanup ==
    /\ status = "running" /\ load.pc = "rm"
    /\ \/ /\ tempDir' = "none"
          /\ load' = [load EXCEPT !.pc = "read2"]
          /\ UNCHANGED stderr
       \/ /\ RetrieveFailed("rm")
          /\ UNCHANGED tempDir
    /\ UNCHANGED <<docs, dirs, files, permissionSets, profiles, selected, pc, reads,
                   retrieveLog, status>>
    /\ UNCHANGED tableVars
    /\ UNCHANGED manifestVars
    /\ UNCHANGED firstRun
    /\ UNCHANGED canvas
    /\ UNCHANGED choice

\* getPermissionSetMetadata: the fs.readFile after retrievePermissionSet, in
\* the catch block: its error leaves the function
ReadAgain ==
    /\ status = "running" /\ load.pc = "read2"
    /\ reads' = CountRead("PermissionSet", load.name)
    /\ load' = IF docs["PermissionSet"][load.name] = "present"
               THEN [load EXCEPT !.pc = "returned", !.reads = @ + 1]
               ELSE [load EXCEPT !.pc = "threw", !.reads = @ + 1, !.cause = "read2"]
    /\ UNCHANGED <<docs, dirs, files, tempDir, permissionSets, profiles, selected, pc,
                   retrieveLog, status, stderr>>
    /\ UNCHANGED tableVars
    /\ UNCHANGED manifestVars
    /\ UNCHANGED firstRun
    /\ UNCHANGED canvas
    /\ UNCHANGED choice

\* getProfileMetadata: one fs.readFile; the catch logs and rethrows
ReadProfile ==
    /\ status = "running" /\ pc.sub = "call" /\ SiteKind = "Profile"
    /\ LET name == SiteName
           state == docs["Profile"][name]
           started == [NoLoad EXCEPT !.kind = "Profile", !.name = name, !.reads = 1]
       IN /\ reads' = CountRead("Profile", name)
          /\ IF state = "present"
             THEN /\ load' = [started EXCEPT !.pc = "returned", !.first = "ok"]
                  /\ UNCHANGED stderr
             ELSE /\ load' = [started EXCEPT !.pc = "threw", !.first = ReadErrorCode(state),
                                             !.cause = "read1"]
                  /\ stderr' = Append(stderr, "Error reading profile metadata")
    /\ pc' = [pc EXCEPT !.sub = "await"]
    /\ UNCHANGED <<docs, dirs, files, tempDir, permissionSets, profiles, selected,
                   retrieveLog, status>>
    /\ UNCHANGED tableVars
    /\ UNCHANGED manifestVars
    /\ UNCHANGED firstRun
    /\ UNCHANGED canvas
    /\ UNCHANGED choice

\* path.join
PathJoin(parts) == Join(parts, "/")

\* fs.writeFile: the file holds the content, whatever it held before
WriteFile(fs, path, content) ==
    [p \in DOMAIN fs \cup {path} |-> IF p = path THEN content ELSE fs[p]]

\* line.includes(":-")
IncludesDash(line) == \E k \in 1..Len(line) : line[k] \in DashTexts

\* generateImage: null when no line holds the first header cell; otherwise
\* the picture, as the texts drawn row by row and column by column.  The
\* cells of a line are the pieces of line.split("|") that are not blank.  The
\* separator line and every line that includes ":-" are skipped, a line of
\* fewer than two cells is not drawn, and a cell beyond the number of header
\* cells is not drawn.
ImageCells(line) == SelectSeq(line, NonEmpty)
IsDrawn(line) == ~IncludesDash(line) /\ Len(ImageCells(line)) >= 2
generateImage(t) ==
    IF t.header = <<>> \/ t.header[1] # HdrObjectName
    THEN [isNull |-> TRUE, grid |-> <<>>]
    ELSE LET tableRows == <<TableLine(t.header)>> \o [r \in 1..Len(t.rows) |-> TableLine(t.rows[r])]
             headerCells == Len(ImageCells(tableRows[1]))
             drawn == SelectSeq(tableRows, IsDrawn)
         IN [isNull |-> FALSE,
             grid |-> [i \in 1..Len(drawn) |->
                         SubSeq(ImageCells(drawn[i]), 1,
                                IF Len(ImageCells(drawn[i])) < headerCells
                                THEN Len(ImageCells(drawn[i])) ELSE headerCells)]]

\* the markdown file and, when generateImage gives one, the image file of a
\* table
WriteReport(fs, dir, base, t) ==
    LET md == WriteFile(fs, PathJoin(<<dir, base \o ".md">>), t)
    IN IF generateImage(t).isNull THEN md
       ELSE WriteFile(md, PathJoin(<<dir, base \o ".png">>), generateImage(t))

\* a variant of the handling of an error of main's branches that ends every
\* run the way the profile branch does
CatchExitCodeSwallowed(at) == "exit0"

\* the exit status after an error: the catch of the profile branch logs the
\* error and main returns; main's own catch calls process.exit(1)
CatchExitCode(at) == IF at = "profile" THEN "exit0" ELSE "exit1"

CatchMessage(at) == IF at = "profile" THEN "Error generating design for profile" ELSE "Error:"

\* an error leaves the loader: it reaches the catch that encloses the call
LoadFailed ==
    /\ status = "running" /\ load.pc = "threw"
    /\ Exit(CatchExitCode(pc.at), <<CatchMessage(pc.at)>>)
    /\ UNCHANGED <<docs, dirs, files, tempDir, permissionSets, profiles, selected, pc, load,
                   reads, retrieveLog>>
    /\ UNCHANGED tableVars
    /\ UNCHANGED manifestVars
    /\ UNCHANGED firstRun
    /\ UNCHANGED canvas
    /\ UNCHANGED choice

\* the folder and the two reports of one entity: fs.mkdir, then
\* getCustomObjectsFromPackageXml, the object table and its files, the field
\* table and its files; an error ends the sequence where it is raised
DesignSteps(kindDir, name, meta) ==
    LET designPath == PathJoin(<<".design", kindDir, name>>)
        objs == getCustomObjectsFromPackageXml(packageXml)
        objsOk == ~objs.threw /\ objs.value.kind = "array"
        objectPermissions == generateObjectPermissionsTable(name, Items(objs.value), meta)
        fieldPermissions == generateFieldPermissionsTable(name, customFields, meta)
        afterObject == WriteReport(files, designPath, "object-permissions", objectPermissions)
    IN [dirs |-> dirs \cup {designPath},
        customObjects |-> IF objsOk THEN Items(objs.value) ELSE customObjects,
        objectTable |-> IF objsOk THEN objectPermissions ELSE NotRun,
        fieldTable |-> IF objsOk /\ objectPermissions.err = "none" THEN fieldPermissions
                       ELSE NotRun,
        files |-> IF ~objsOk \/ objectPermissions.err # "none" THEN files
                  ELSE IF fieldPermissions.err # "none" THEN afterObject
                  ELSE WriteReport(afterObject, designPath, "field-permissions",
                                   fieldPermissions),
        ok |-> objsOk /\ objectPermissions.err = "none" /\ fieldPermissions.err = "none"]

ApplyDesignSteps(d, name, meta) ==
    /\ dirs' = d.dirs
    /\ files' = d.files
    /\ customObjects' = d.customObjects
    /\ entityName' = name
    /\ metadata' = meta
    /\ table' = [table EXCEPT !["singleObject"] = d.objectTable,
                              !["singleField"] = d.fieldTable]

\* createDesignFolder(ps, metadata, customFields), called by
\* generateAllDesigns for each permission set and by main for the selected
\* one, with the metadata the loader returned
CreateDesignFolder ==
    /\ status = "running" /\ pc.at = "designs" /\ pc.sub = "await" /\ load.pc = "returned"
    /\ LET name == load.name
           meta == RunMetadata("PermissionSet", name)
           d == DesignSteps("permissionsets", name, meta)
       IN /\ ApplyDesignSteps(d, name, meta)
          /\ IF ~d.ok
             THEN /\ Exit("exit1", <<"Error:">>)
                  /\ UNCHANGED <<pc, load>>
             ELSE IF pc.c < Len(Targets)
             THEN /\ pc' = Pc("designs", "call", 0, pc.c + 1)
                  /\ load' = NoLoad
                  /\ UNCHANGED <<status, stderr>>
             ELSE /\ Exit("exit0", <<>>)
                  /\ UNCHANGED <<pc, load>>
    /\ UNCHANGED <<docs, tempDir, permissionSets, profiles, selected, reads, retrieveLog>>
    /\ UNCHANGED <<customFields, describeData, extracted>>
    /\ UNCHANGED manifestVars
    /\ UNCHANGED firstRun
    /\ UNCHANGED canvas
    /\ UNCHANGED choice

\* main's profile branch after getProfileMetadata returned: the same steps
\* under .design/profiles, inside the branch's own try
ProfileDesign ==
    /\ status = "running" /\ pc.at = "profile" /\ pc.sub = "await" /\ load.pc = "returned"
    /\ LET name == load.name
           meta == RunMetadata("Profile", name)
           d == DesignSteps("profiles", name, meta)
       IN /\ ApplyDesignSteps(d, name, meta)
          /\ IF ~d.ok
             THEN Exit(CatchExitCode(pc.at), <<CatchMessage(pc.at)>>)
             ELSE Exit("exit0", <<>>)
    /\ UNCHANGED <<docs, tempDir, permissionSets, profiles, selected, pc, load, reads,
                   retrieveLog>>
    /\ UNCHANGED <<customFields, describeData, extracted>>
    /\ UNCHANGED manifestVars
    /\ UNCHANGED firstRun
    /\ UNCHANGED canvas
    /\ UNCHANGED choice

\* a variant of the summary folder that lies beside the profiles' folders
AllPathUnderProfiles == PathJoin(<<".design", "profiles", "all">>)

\* generateAllSummary: allPath
AllPath == PathJoin(<<".design", "permissionsets", "all">>)

\* the metadata the loaders return during a summary run
RunPermissionSetMetadata ==
    [n \in EntityNames \cup MenuNames |-> RunMetadata("PermissionSet", n)]
RunProfileMetadata == [n \in EntityNames \cup MenuNames |-> RunMetadata("Profile", n)]

\* generateAllSummary up to its first loader call: fs.mkdir of the summary
\* folder and getCustomObjectsFromPackageXml
SummaryStart ==
    /\ status = "running" /\ pc.at = "summary" /\ pc.sub = "mkdir"
    /\ dirs' = dirs \cup {AllPath}
    /\ LET objs == getCustomObjectsFromPackageXml(packageXml)
       IN IF objs.threw \/ objs.value.kind # "array"
          THEN /\ Exit("exit1", <<"Error:">>)
               /\ UNCHANGED <<customObjects, pc>>
          ELSE /\ customObjects' = Items(objs.value)
               /\ pc' = Pc("objectHeader", "call", 0, 1)
               /\ UNCHANGED <<status, stderr>>
    /\ UNCHANGED <<docs, files, tempDir, permissionSets, profiles, selected, load, reads,
                   retrieveLog>>
    /\ UNCHANGED <<customFields, entityName, metadata, describeData, table, extracted>>
    /\ UNCHANGED manifestVars
    /\ UNCHANGED firstRun
    /\ UNCHANGED canvas
    /\ UNCHANGED choice

\* the number of columns of entities, and the rows of the table in progress
SummaryColumns == Len(permissionSets) + Len(profiles)
SummaryRows(at) ==
    IF at \in {"objectHeader", "objectRows"} THEN Len(customObjects) ELSE Len(customFields)

\* a variant of the loops of generateAllSummary that loads the metadata for
\* the header only and goes on to the write of the table
SummaryAdvanceHeaderOnly(p) ==
    IF p.c < SummaryColumns THEN Pc(p.at, "call", p.r, p.c + 1)
    ELSE Pc("summary",
            IF p.at \in {"objectHeader", "objectRows"} THEN "writeObject" ELSE "writeField",
            0, 0)

\* the position after the loader returned at a position of generateAllSummary:
\* the next entity of the header or of the row, the first entity of the next
\* row, or the write of the table
SummaryAdvance(p) ==
    LET rowsAt == IF p.at = "objectHeader" THEN "objectRows"
                  ELSE IF p.at = "fieldHeader" THEN "fieldRows" ELSE p.at
        write == IF p.at \in {"objectHeader", "objectRows"} THEN "writeObject" ELSE "writeField"
    IN IF p.c < SummaryColumns THEN Pc(p.at, "call", p.r, p.c + 1)
       ELSE IF p.r < SummaryRows(p.at) THEN Pc(rowsAt, "call", p.r + 1, 1)
       ELSE Pc("summary", write, 0, 0)

\* generateAllSummary after a loader call returned: the label or the
\* permission string is appended and the loop goes on
SummaryLoaded ==
    /\ status = "running" /\ pc.sub = "await" /\ load.pc = "returned"
    /\ pc.at \in {"objectHeader", "objectRows", "fieldHeader", "fieldRows"}
    /\ pc' = SummaryAdvance(pc)
    /\ load' = NoLoad
    /\ UNCHANGED <<docs, dirs, files, tempDir, permissionSets, profiles, selected, reads,
                   retrieveLog, status, stderr>>
    /\ UNCHANGED tableVars
    /\ UNCHANGED manifestVars
    /\ UNCHANGED firstRun
    /\ UNCHANGED canvas
    /\ UNCHANGED choice

\* generateAllSummary: the object summary is saved, with its image
SummaryWriteObject ==
    /\ status = "running" /\ pc.at = "summary" /\ pc.sub = "writeObject"
    /\ LET t == SummaryObjectTable(permissionSets, profiles, customObjects,
                                   RunPermissionSetMetadata, RunProfileMetadata)
       IN /\ files' = WriteReport(files, AllPath, "object-permissions", t)
          /\ table' = [table EXCEPT !["summaryObject"] = t]
    /\ pc' = Pc("fieldHeader", "call", 0, 1)
    /\ UNCHANGED <<docs, dirs, tempDir, permissionSets, profiles, selected, load, reads,
                   retrieveLog, status, stderr>>
    /\ UNCHANGED <<customObjects, customFields, entityName, metadata, describeData, extracted>>
    /\ UNCHANGED manifestVars
    /\ UNCHANGED firstRun
    /\ UNCHANGED canvas
    /\ UNCHANGED choice

\* generateAllSummary: the field summary is saved, with its image, and main
\* returns
SummaryWriteField ==
    /\ status = "running" /\ pc.at = "summary" /\ pc.sub = "writeField"
    /\ LET t == SummaryFieldTable(permissionSets, profiles, customFields,
                                  RunPermissionSetMetadata, RunProfileMetadata)
       IN /\ files' = WriteReport(files, AllPath, "field-permissions", t)
          /\ table' = [table EXCEPT !["summaryField"] = t]
    /\ Exit("exit0", <<>>)
    /\ UNCHANGED <<docs, dirs, tempDir, permissionSets, profiles, selected, pc, load, reads,
                   retrieveLog>>
    /\ UNCHANGED <<customObjects, customFields, entityName, metadata, describeData, extracted>>
    /\ UNCHANGED manifestVars
    /\ UNCHANGED firstRun
    /\ UNCHANGED canvas
    /\ UNCHANGED choice

RunNext ==
    \/ MainStart
    \/ Prompt
    \/ Dispatch
    \/ ReadLocal
    \/ RetrieveMkdir
    \/ RetrieveWriteManifest
    \/ RetrieveExec
    \/ RetrieveCleanup
    \/ ReadAgain
    \/ ReadProfile
    \/ LoadFailed
    \/ CreateDesignFolder
    \/ ProfileDesign
    \/ SummaryStart
    \/ SummaryLoaded
    \/ SummaryWriteObject
    \/ SummaryWriteField

Spec == RunInit /\ [][RunNext]_vars

----------------------------------------------------------------------------
(* Claims about the metadata loaders *)

\* a call of the loader that has ended, by a return or by an error
LoadEnded(kind) == load.kind = kind /\ load.pc \in {"returned", "threw"}

\* the steps of retrievePermissionSet before, and from, the retrieve command
BeforeCommand == {"mkdir", "write"}
FromCommand == {"exec", "rm"}

\* C8 (as stated): a load of a permission set that read the document at once
\* returns without retrieval; the retrieve command runs if and only if the
\* first read failed with ENOENT, at most once, on a manifest naming only the
\* entity, and is followed by exactly one more local read; a first read
\* failing otherwise runs no retrieval
C8_RetrieveIffNotFoundThenReadOnce ==
    LoadEnded("PermissionSet") =>
        /\ load.first = "ok" =>
              load.pc = "returned" /\ load.reads = 1 /\ load.retrievals = 0
        /\ load.retrievals >= 1 <=> load.first = "ENOENT"
        /\ load.retrievals <= 1
        /\ load.retrievals = 1 =>
              /\ load.manifest = <<[name |-> "PermissionSet", members |-> <<load.name>>]>>
              /\ load.reads = 2
        /\ load.first = "other" => load.retrievals = 0 /\ load.pc = "threw"

\* C8 (amended): as above, except that retrievePermissionSet, entered if and
\* only if the first read failed with ENOENT, runs the retrieve command only
\* once .temp and its manifest are written, and that the second local read is
\* made only when retrievePermissionSet completed: a load has two reads when
\* the command and the cleanup succeeded and one read otherwise
C8_RetrieveOnlyIfNotFoundReadAfterSuccess ==
    LoadEnded("PermissionSet") =>
        /\ load.first = "ok" =>
              load.pc = "returned" /\ load.reads = 1 /\ load.calls = 0 /\ load.retrievals = 0
        /\ load.calls = 1 <=> load.first = "ENOENT"
        /\ load.calls <= 1 /\ load.retrievals <= load.calls
        /\ load.retrievals = 0 /\ load.first = "ENOENT" => load.cause \in BeforeCommand
        /\ load.retrievals = 1 =>
              /\ load.manifest = <<[name |-> "PermissionSet", members |-> <<load.name>>]>>
              /\ retrieveLog # <<>> /\ retrieveLog[Len(retrieveLog)] = load.manifest
        /\ load.reads = 2 <=> (load.retrievals = 1 /\ load.cause \notin FromCommand)
        /\ load.reads \in {1, 2}
        /\ load.first = "other" =>
              load.calls = 0 /\ load.retrievals = 0 /\ load.reads = 1 /\ load.pc = "threw"

\* C8 witness: a load of a permission set whose document was missing returned
\* after one run of the retrieve command and a second read
C8_Witness ==
    /\ LoadEnded("PermissionSet") /\ load.pc = "returned"
    /\ load.first = "ENOENT" /\ load.retrievals = 1 /\ load.reads = 2

\* C9: a load of a profile whose document is missing runs the retrieval once,
\* reads the document again, and returns when the retrieval put the document
\* in place
C9_ProfileNotFoundIsRecovered ==
    LoadEnded("Profile") /\ load.first = "ENOENT" =>
        /\ load.retrievals = 1
        /\ load.cause \notin BeforeCommand \cup FromCommand => load.reads = 2
        /\ docs["Profile"][load.name] = "present" => load.pc = "returned"

\* the loader ended by an error of the retrieval or of the read that follows it
FailedAfterNotFound ==
    /\ LoadEnded("PermissionSet") /\ load.pc = "threw"
    /\ load.cause \in BeforeCommand \cup FromCommand \cup {"read2"}

\* C10: once the retrieval, or the read after it, has failed, the only step of
\* the run is the one that reports the error and ends the process with
\* status 1: no local read, no run of the retrieve command and no write of a
\* report file comes after the failure
C10_RetrievalFailureAbortsRun ==
    /\ [][FailedAfterNotFound =>
            /\ reads' = reads /\ load' = load
            /\ retrieveLog' = retrieveLog
            /\ files' = files /\ dirs' = dirs
            /\ status' = "exit1"
            /\ stderr' = Append(stderr, "Error:")]_vars
    /\ [](FailedAfterNotFound /\ status # "running" => status = "exit1")

\* C10 witness: a run ended with status 1 after the retrieve command, or the
\* read after it, failed
C10_Witness ==
    /\ FailedAfterNotFound /\ load.cause \in {"exec", "read2"}
    /\ status = "exit1"

----------------------------------------------------------------------------
(* Claims about a run of main() *)

\* an error was raised during the run: by a metadata loader or by a table
\* generator
ErrorRaised ==
    \/ load.pc = "threw"
    \/ \E op \in TableOps : table[op].err # "none"

\* C11: a run in which an error was raised ends with a non-zero exit status
\* and with the error logged, whatever the selection
C11_EveryErrorEndsRunNonZero ==
    status # "running" /\ ErrorRaised => status = "exit1" /\ stderr # <<>>

\* the path of a report of one entity
DesignFile(kindDir, name, base) == PathJoin(<<".design", kindDir, name, base>>)

\* a report file holds a rendered table of n columns
HoldsTable(path, n) ==
    /\ path \in DOMAIN files
    /\ files[path].ran /\ files[path].err = "none"
    /\ Len(files[path].header) = n
    /\ \A r \in 1..Len(files[path].rows) : Len(files[path].rows[r]) = n

\* C12: a run for one permission set, or for All, whose permission-set
\* documents are present ends without error, and for every permission set it
\* is for, object-permissions.md (label, identifier, one permission column)
\* and field-permissions.md (four leading columns, one permission column)
\* exist under .design/permissionsets/{name}
C12_PermissionSetDesignsAreWritten ==
    /\ status # "running"
    /\ selected \in {"All"} \cup Range(permissionSets)
    /\ \A i \in 1..Len(Targets) : docs["PermissionSet"][Targets[i]] = "present"
    => /\ status = "exit0"
       /\ \A i \in 1..Len(Targets) :
            /\ HoldsTable(DesignFile("permissionsets", Targets[i], "object-permissions.md"), 3)
            /\ HoldsTable(DesignFile("permissionsets", Targets[i], "field-permissions.md"), 5)

\* the participating entities of a summary run, in column order: the
\* permission sets in manifest order, then the profiles in manifest order
SummaryEntities ==
    [i \in 1..Len(permissionSets) |-> [kind |-> "PermissionSet", name |-> permissionSets[i]]]
    \o [j \in 1..Len(profiles) |-> [kind |-> "Profile", name |-> profiles[j]]]

\* the heading of an entity's column: its declared label, or its identifier
ExpectedHeading(e) ==
    IF RunMetadata(e.kind, e.name).label # "" THEN RunMetadata(e.kind, e.name).label
    ELSE e.name

\* the cell an entity's record gives for a member of the manifest
ExpectedSummaryCell(op, e, member) ==
    IF op = "summaryObject"
    THEN LET f == FindObjectPermission(RunMetadata(e.kind, e.name).objectPermissions, member)
         IN IF f.found /\ AnyObjectFlag(f.value) THEN ExpectedObjectCode(f.value) ELSE "-"
    ELSE LET f == FindFieldPermission(RunMetadata(e.kind, e.name).fieldPermissions, member)
         IN IF f.found THEN ExpectedFieldCode(f.value) ELSE "-"

\* the number of leading label and identifier columns
LeadColumns(op) == IF op \in ObjectTableOps THEN 2 ELSE 4

\* C13: a summary table has, after its leading columns, one column per
\* participating entity, permission sets first and profiles after them, both
\* in manifest order, headed by the label or else the identifier; every row
\* has one permission cell per column, derived from that column's entity
C13_SummaryColumnsFollowEntities ==
    \A op \in {"summaryObject", "summaryField"} : table[op].ran =>
        LET t == table[op]
            n == Len(SummaryEntities)
            lead == LeadColumns(op)
        IN /\ t.err = "none"
           /\ Len(t.header) = lead + n
           /\ \A c \in 1..n : t.header[lead + c] = ExpectedHeading(SummaryEntities[c])
           /\ Len(t.rows) = Len(MemberList(op))
           /\ \A r \in 1..Len(t.rows) :
                /\ Len(t.rows[r]) = lead + n
                /\ \A c \in 1..n :
                     t.rows[r][lead + c] =
                        ExpectedSummaryCell(op, SummaryEntities[c], MemberList(op)[r])

\* C13 witness: the field summary of a run over two different permission sets
\* and a profile was rendered with a row
C13_Witness ==
    /\ table["summaryField"].ran /\ table["summaryField"].rows # <<>>
    /\ Len(permissionSets) = 2 /\ permissionSets[1] # permissionSets[2]
    /\ profiles # <<>>
    /\ status = "exit0"

----------------------------------------------------------------------------
(* Claims about labels *)

\* an identifier without its trailing "__c", anything else unchanged
StripTrailingSuffix(s) ==
    LET toks == TokensOf(s)
    IN IF toks[Len(toks)] = "__c" THEN Join(SubSeq(toks, 1, Len(toks) - 1), "") ELSE s

\* the object a row of a table is about
RowObject(op, r) ==
    IF op \in ObjectTableOps THEN customObjects[r] ELSE FieldObjName(customFields[r])

\* C14: in every row the identifier cell is the object's unmodified
\* identifier, and the display label is the label of the object's describe
\* snapshot when there is one and otherwise the identifier with its trailing
\* "__c" removed and nothing else changed
C14_FallbackLabelStripsTrailingSuffix ==
    \A op \in TableOps : (table[op].ran /\ table[op].err = "none") =>
        \A r \in 1..Len(table[op].rows) :
            LET obj == RowObject(op, r)
            IN /\ table[op].rows[r][2] = obj
               /\ table[op].rows[r][1] =
                     IF describeData[obj].available THEN describeData[obj].label
                     ELSE StripTrailingSuffix(obj)

\* the descriptors of a snapshot whose name is exactly the field API name
ExactDescriptors(d, fld) ==
    IF d.available /\ d.hasFields
    THEN {i \in 1..Len(d.fields) : d.fields[i].name = fld}
    ELSE {}

\* the field label cell of every row of the field tables: the label of the
\* exactly named descriptor, or the given fallback when there is none
FieldLabelCells(fallback(_)) ==
    \A op \in FieldTableOps : (table[op].ran /\ table[op].err = "none") =>
        \A r \in 1..Len(table[op].rows) :
            LET d == describeData[FieldObjName(customFields[r])]
                hits == ExactDescriptors(d, FieldFieldName(customFields[r]))
            IN table[op].rows[r][3] =
                  IF hits # {} THEN d.fields[Min(hits)].label ELSE fallback(r)

QualifiedFieldName(r) == customFields[r]
GivenFieldApiName(r) == FieldFieldName(customFields[r])

\* C15 (as stated): the field label is the label of the descriptor named
\* exactly as the field; without snapshot, field list or such a descriptor it
\* is the qualified field name (Object.Field)
C15_FieldLabelOrQualifiedName == FieldLabelCells(QualifiedFieldName)

\* C15 (amended): as above, the fallback being the field API name that was
\* given to the lookup, which is the part of the member after the dot
C15_FieldLabelOrFieldApiName == FieldLabelCells(GivenFieldApiName)

\* C15 witness: a field table was rendered with a row for Account.Name while
\* the only descriptor of Account's snapshot is named "name"
C15_Witness ==
    /\ table["singleField"].ran /\ table["singleField"].err = "none"
    /\ \E r \in 1..Len(customFields) : customFields[r] = "Account.Name"
    /\ describeData["Account"].hasFields
    /\ describeData["Account"].fields[1].name = "name"

\* the permission cell the record of the entity gives for row r of a table
\* over that entity alone, whatever the describe cache holds
ExpectedCellOfRecord(op, r) ==
    IF op \in ObjectTableOps
    THEN LET f == ObjectEntryOf(customObjects[r])
         IN IF f.found /\ AnyObjectFlag(f.value) THEN ExpectedObjectCode(f.value) ELSE "-"
    ELSE LET f == FieldEntryOf(customFields[r])
         IN IF f.found THEN ExpectedFieldCode(f.value) ELSE "-"

\* C16: no state of the describe cache (snapshot missing, unreadable, not
\* valid JSON, or present) makes a table generator fail, and the rows, their
\* identifier cells and their permission cells are those that the manifest
\* and the permission record give, the same for every state of the cache
C16_UnusableSnapshotIsNotFatal ==
    \A op \in TableOps : table[op].ran =>
        /\ table[op].err # "none" => op \in {"singleObject", "singleField"} /\ metadata.root # "Profile"
        /\ table[op].err = "none" =>
              /\ Len(table[op].rows) = Len(MemberList(op))
              /\ \A r \in 1..Len(table[op].rows) :
                    /\ RowIdentifier(op, r) = MemberList(op)[r]
                    /\ PermissionCell(table[op], r) = ExpectedCellOfRecord(op, r)

\* C16 witness: a table was rendered with a row for an object whose snapshot
\* cannot be read and a row for an object whose snapshot is not valid JSON
C16_Witness ==
    /\ table["summaryObject"].ran /\ table["summaryObject"].err = "none"
    /\ customObjects = <<"Custom__c", "ns__city__c">>
    /\ describeData["Custom__c"].cause = "unreadable"
    /\ describeData["ns__city__c"].cause = "invalid"

----------------------------------------------------------------------------
(* Claims about the shape of the reports *)

\* the number of permission entities of a report
EntityColumns(op) ==
    IF op \in {"singleObject", "singleField"} THEN 1 ELSE Len(SummaryEntities)

\* a report that was generated
Generated(op) == table[op].ran /\ table[op].err = "none"

\* C17 (as stated): every report has a heading and a legend, and its table's
\* first two columns are the identifier and the label, followed by one column
\* per permission entity and by no other column
C17_TwoLeadingColumnsThenEntities ==
    \A op \in TableOps : Generated(op) =>
        /\ table[op].heading # "" /\ table[op].legend # <<>>
        /\ Len(table[op].header) = 2 + EntityColumns(op)
        /\ {table[op].header[1], table[op].header[2]} = {HdrObjectApiName, HdrObjectName}

\* C17 (amended): every report has a heading and a legend; the table of an
\* object report starts with the object's label and identifier, in this
\* order, the table of a field report with the object's label and identifier
\* and the field's label and identifier; then comes one column per permission
\* entity and no other column, in the header and in every row
C17_LeadingColumnsThenEntities ==
    \A op \in TableOps : Generated(op) =>
        LET t == table[op]
            leading == IF op \in ObjectTableOps
                       THEN <<HdrObjectName, HdrObjectApiName>>
                       ELSE <<HdrObjectName, HdrObjectApiName, HdrFieldName, HdrFieldApiName>>
        IN /\ t.heading # "" /\ t.legend # <<>>
           /\ Len(t.header) = Len(leading) + EntityColumns(op)
           /\ SubSeq(t.header, 1, Len(leading)) = leading
           /\ \A r \in 1..Len(t.rows) : Len(t.rows[r]) = Len(t.header)

\* C17 witness: the object report and the field report of one profile were
\* generated, each with a row
C17_Witness ==
    /\ Generated("singleObject") /\ Generated("singleField")
    /\ table["singleObject"].rows # <<>> /\ table["singleField"].rows # <<>>
    /\ status = "exit0"

----------------------------------------------------------------------------
(* The table extractor (scripts/extract-permissions.js) *)

\* the table of a report as the generators write it: the header line, the
\* separator line and one line per row
RenderMarkdown(t) ==
    [header |-> TableLine(t.header),
     separators |-> Len(t.header),
     rows |-> [r \in 1..Len(t.rows) |-> TableLine(t.rows[r])]]

\* row.includes("|:--"): a piece after a pipe that starts with ":--"
SeparatorPieces == {":--"}
IncludesSeparator(line) == \E k \in 2..Len(line) : line[k] \in SeparatorPieces

KeepsRow(line) == ~IncludesSeparator(line)

\* extractTableData: tableRegex needs a header line, a separator line of two
\* columns or more and at least one row line; the header cells are the
\* non-empty pieces of the header line, the cells of a row the pieces between
\* its first and its last pipe
extractTableData(md) ==
    IF md.separators < 2 \/ md.rows = <<>> THEN NoTableFound
    ELSE Extracted(
            SelectSeq(SubSeq(md.header, 2, Len(md.header) - 1), NonEmpty),
            [r \in 1..Len(SelectSeq(md.rows, KeepsRow)) |->
                SubSeq(SelectSeq(md.rows, KeepsRow)[r], 2,
                       Len(SelectSeq(md.rows, KeepsRow)[r]) - 1)])

\* the reports the extractor is run on: tables of one entity with or without
\* a label, over the manifest lists (the empty ones included) and the caches
ExtractInit ==
    /\ entityName = "Sales"
    /\ describeData \in FieldDescribeCaches
    /\ \E kind \in EntityKinds, label \in {"", "Sales Team"} :
         \/ /\ customObjects \in SeqUpTo(ManifestObjects, MaxRows)
            /\ customFields = <<>>
            /\ metadata = Metadata(kind, label, NoSection, NoSection)
         \/ /\ customObjects = <<>>
            /\ customFields \in SeqUpTo(ManifestFields, MaxRows)
            /\ customFields # <<>>
            /\ metadata = Metadata(kind, label, NoSection, NoSection)
    /\ table = [op \in TableOps |-> NotRun]
    /\ extracted = [op \in TableOps |-> NotExtracted]
    /\ packageXml = <<>>
    /\ reader = [op |-> "none"]
    /\ RunIdle

\* the extractor is run on the markdown file of a report
ExtractPermissions ==
    /\ \E op \in TableOps :
         /\ table[op].ran /\ table[op].err = "none"
         /\ ~extracted[op].ran
         /\ extracted' = [extracted EXCEPT ![op] = extractTableData(RenderMarkdown(table[op]))]
    /\ UNCHANGED <<customObjects, customFields, entityName, metadata, describeData, table>>
    /\ UNCHANGED manifestVars
    /\ UNCHANGED runVars

ExtractNext ==
    \/ SingleObjectTable
    \/ SingleFieldTable
    \/ SummaryObject
    \/ SummaryField
    \/ ExtractPermissions

SpecExtract == ExtractInit /\ [][ExtractNext]_vars

\* C18: re-parsing a rendered table with the extractor finds the table and
\* recovers its header cells and, row by row, its cells in order
C18_ExtractRecoversRenderedTable ==
    \A op \in TableOps : extracted[op].ran =>
        /\ extracted[op].found
        /\ extracted[op].header = table[op].header
        /\ extracted[op].rows = table[op].rows

----------------------------------------------------------------------------
(* Image rendering *)

\* the folders main writes reports into
ReportFolders ==
    {PathJoin(<<".design", kindDir, n>>) :
        kindDir \in {"permissionsets", "profiles"}, n \in EntityNames \cup {"all"}}

ReportBases == {"object-permissions", "field-permissions"}

\* the picture that shows every line of a table: the header line and each
\* row in order, the k-th cell of a line in the k-th column
FullGrid(t) == <<t.header>> \o t.rows

\* C19: every markdown report a run has written has its image next to it,
\* and the image shows the header and every row of the table in order, the
\* k-th cell of each line in the k-th column, whatever the cell texts are
C19_ImageReproducesTable ==
    \A dir \in ReportFolders, base \in ReportBases :
        PathJoin(<<dir, base \o ".md">>) \in DOMAIN files =>
            /\ PathJoin(<<dir, base \o ".png">>) \in DOMAIN files
            /\ files[PathJoin(<<dir, base \o ".png">>)].grid
                 = FullGrid(files[PathJoin(<<dir, base \o ".md">>)])

----------------------------------------------------------------------------
(* Report paths *)

ReportFileNames ==
    {"object-permissions.md", "object-permissions.png",
     "field-permissions.md", "field-permissions.png"}

\* the report paths of the convention under one folder
ConventionFiles(kindDir, name) == {DesignFile(kindDir, name, f) : f \in ReportFileNames}

\* the paths the convention allows the run to write, by what was selected: a
\* name the manifest lists as a permission set is a permission set
ConventionPaths ==
    IF selected = "All summary" THEN ConventionFiles("permissionsets", "all")
    ELSE IF selected = "All"
    THEN UNION {ConventionFiles("permissionsets", p) : p \in Range(permissionSets)}
    ELSE IF selected \in Range(permissionSets)
    THEN ConventionFiles("permissionsets", selected)
    ELSE ConventionFiles("profiles", selected)

\* C20: every file a run has written is at a path of the convention for what
\* was selected: under .design/permissionsets/P for a permission set P, under
\* .design/profiles/F for a profile F, under .design/permissionsets/all for
\* the summary, with one of the four report file names
C20_ReportsOnlyAtConventionPaths == DOMAIN files \subseteq ConventionPaths

\* a profile run and a summary run that have written all four report files
C20_Witness ==
    /\ status = "exit0"
    /\ \/ selected \in Range(profiles) \ Range(permissionSets)
       \/ selected = "All summary"
    /\ DOMAIN files = ConventionPaths

----------------------------------------------------------------------------
(* Two successive runs over the same working directory *)

\* the run has called retrievePermissionSet: the command was run, or the
\* function failed before it
CalledRetrieve ==
    retrieveLog # <<>> \/ "Error retrieving permission set" \in Range(stderr)

\* node scripts/generate-design.js is started again, and the same choice is
\* made, after a run has ended that found every metadata document it read or
\* failed on it without fetching it from the org: the manifest, the metadata
\* documents and the describe cache are what they were when the first run
\* started, and everything under .design is as the first run left it
Rerun ==
    /\ status # "running" /\ ~firstRun.done
    /\ ~CalledRetrieve
    /\ firstRun' = FirstRun(selected, status, dirs, files)
    /\ customObjects' = <<>>
    /\ customFields' = <<>>
    /\ entityName' = ""
    /\ metadata' = Metadata("Profile", "", NoSection, NoSection)
    /\ table' = [op \in TableOps |-> NotRun]
    /\ permissionSets' = <<>>
    /\ profiles' = <<>>
    /\ selected' = ""
    /\ pc' = Pc("start", "", 0, 0)
    /\ load' = NoLoad
    /\ reads' = [k \in EntityKinds |-> [n \in EntityNames |-> 0]]
    /\ retrieveLog' = <<>>
    /\ status' = "running"
    /\ stderr' = <<>>
    /\ choice' = NoChoice
    /\ UNCHANGED <<docs, dirs, files, tempDir, describeData, extracted, canvas>>
    /\ UNCHANGED manifestVars

RerunNext ==
    \/ MainStart
    \/ Prompt
    \/ Dispatch
    \/ ReadLocal
    \/ RetrieveMkdir
    \/ RetrieveWriteManifest
    \/ RetrieveExec
    \/ RetrieveCleanup
    \/ ReadAgain
    \/ ReadProfile
    \/ LoadFailed
    \/ CreateDesignFolder
    \/ ProfileDesign
    \/ SummaryStart
    \/ SummaryLoaded
    \/ SummaryWriteObject
    \/ SummaryWriteField
    \/ Rerun

SpecRerun == RunInit /\ [][RerunNext]_vars

\* the second run has ended and had selected what the first had
SameGenerationTwice ==
    /\ firstRun.done
    /\ status # "running"
    /\ selected = firstRun.selected

\* the markdown file the run writes the table of a generator to
ReportPath(op) ==
    PathJoin(<<IF op \in {"summaryObject", "summaryField"} THEN AllPath
               ELSE PathJoin(<<".design",
                               IF pc.at = "profile" THEN "profiles" ELSE "permissionsets",
                               entityName>>),
               IF op \in {"singleObject", "summaryObject"} THEN "object-permissions.md"
               ELSE "field-permissions.md">>)

\* a second run of the same generation over what the first left ends as the
\* first did and leaves the same directories and the same files with the same
\* contents: a directory that exists is no error
SecondRunChangesNothing ==
    SameGenerationTwice =>
        status = firstRun.status /\ dirs = firstRun.dirs /\ files = firstRun.files

\* a markdown report that was written has its image beside it exactly when
\* generateImage gave one
ImageExactlyWhenRendered ==
    \A dir \in ReportFolders, base \in ReportBases :
        PathJoin(<<dir, base \o ".md">>) \in DOMAIN files =>
            (PathJoin(<<dir, base \o ".png">>) \in DOMAIN files
                <=> ~generateImage(files[PathJoin(<<dir, base \o ".md">>)]).isNull)

\* every table a generator of the run has returned is in its markdown file
ReturnedTableIsWritten ==
    \A op \in TableOps :
        table[op].ran /\ table[op].err = "none" =>
            /\ ReportPath(op) \in DOMAIN files
            /\ files[ReportPath(op)] = table[op]

\* a run that found the metadata documents and read the manifest lists
\* leaves both markdown reports in every folder it created
MarkdownAlwaysWritten ==
    /\ status # "running" /\ load.pc # "threw"
    /\ ~getCustomObjectsFromPackageXml(packageXml).threw
    /\ getCustomObjectsFromPackageXml(packageXml).value.kind = "array"
    => \A dir \in dirs, base \in ReportBases : PathJoin(<<dir, base \o ".md">>) \in DOMAIN files

\* C21: the report writer is idempotent: a second run of the same generation
\* leaves the same directories and files with the same contents as the first
\* (an existing directory is not an error); the markdown file is always
\* written in the folder the writer created, and the image file is written
\* exactly when rendering returned image bytes
C21_ReportWriterIsIdempotent ==
    /\ SecondRunChangesNothing
    /\ ImageExactlyWhenRendered
    /\ ReturnedTableIsWritten
    /\ MarkdownAlwaysWritten

----------------------------------------------------------------------------
(* The describe command *)

DescribeOps == {"describe", "describePrompt", "describeAccount"}

\* the describe command has ended without an error: exit status 0 and
\* nothing caught
DescribeEndedSuccessfully ==
    reader.op \in DescribeOps /\ reader.loop.exit = 0 /\ ~reader.logged

\* C22: after the describe command has ended successfully the output
\* directory exists, whatever the number of objects selected, zero included
C22_TargetDirExistsAfterDescribe == DescribeEndedSuccessfully => reader.targetDirExists

----------------------------------------------------------------------------
(* Image drawing: column widths and the shortening of a cell text *)

\* longest cell text the drawing is run on, in characters
MaxTextLen == 20

\* const cellPadding = 10; const minColumnWidth = 150
cellPadding == 10
minColumnWidth == 150

\* the fonts of the canvas: "14px Arial" and "bold 14px Arial"
Fonts == {"normal", "bold"}

\* ctx.measureText(text).width: the sum of the advance widths of the
\* characters; a letter is wider in the bold font
CharWidth(c, font) == IF c = "." THEN 4 ELSE IF font = "bold" THEN 9 ELSE 8
RECURSIVE measureText(_, _)
measureText(text, font) ==
    IF text = <<>> THEN 0 ELSE CharWidth(Head(text), font) + measureText(Tail(text), font)

Ellipsis == <<".", ".", ".">>

\* a text of n letters
Letters(n) == [i \in 1..n |-> "x"]
CellTexts == {Letters(n) : n \in 0..MaxTextLen}

\* while (measureText(displayText + "...").width > maxWidth
\*        && displayText.length > 0) displayText = displayText.slice(0, -1)
\* with maxWidth = cellWidth - cellPadding * 2; steps counts the iterations
RECURSIVE Shorten(_, _, _, _)
Shorten(displayText, font, cellWidth, steps) ==
    IF measureText(displayText \o Ellipsis, font) + cellPadding * 2 > cellWidth
       /\ Len(displayText) > 0
    THEN Shorten(SubSeq(displayText, 1, Len(displayText) - 1), font, cellWidth, steps + 1)
    ELSE [text |-> displayText, steps |-> steps]

\* the text drawn for a cell in a column of the given width
DisplayText(cell, font, cellWidth) ==
    IF measureText(cell, font) + cellPadding * 2 > cellWidth
    THEN [text |-> Shorten(cell, font, cellWidth, 0).text \o Ellipsis,
          steps |-> Shorten(cell, font, cellWidth, 0).steps]
    ELSE [text |-> cell, steps |-> 0]

Max3(a, b, c) == IF a >= b /\ a >= c THEN a ELSE IF b >= c THEN b ELSE c

\* columnWidths[index]: the widest cell of the column measured in the normal
\* font (measureCtx.font = "14px Arial") plus the padding, at least
\* minColumnWidth
ColumnWidth(headerCell, dataCell) ==
    Max3(measureText(headerCell, "normal") + cellPadding * 2,
         measureText(dataCell, "normal") + cellPadding * 2,
         minColumnWidth)

\* the column widths the shortening is tried on besides the computed ones
TriedWidths == {0, 20, 32, 60, 100, 150}

ImageInit ==
    /\ customObjects = <<>>
    /\ customFields = <<>>
    /\ entityName = ""
    /\ metadata = Metadata("Profile", "", NoSection, NoSection)
    /\ describeData = <<>>
    /\ table = [op \in TableOps |-> NotRun]
    /\ extracted = [op \in TableOps |-> NotExtracted]
    /\ packageXml = <<>>
    /\ reader = [op |-> "none"]
    /\ RunIdle

\* the drawing loop on one column: the header cell in the bold font, the data
\* cell in the normal font, in the column width computed from both
DrawColumn ==
    /\ canvas.op = "none"
    /\ \E headerCell \in CellTexts, dataCell \in CellTexts :
         LET w == ColumnWidth(headerCell, dataCell)
         IN canvas' = [op |-> "column", width |-> w,
                       cells |-> <<headerCell, dataCell>>,
                       fonts |-> <<"bold", "normal">>,
                       drawn |-> <<DisplayText(headerCell, "bold", w),
                                   DisplayText(dataCell, "normal", w)>>]
    /\ UNCHANGED tableVars
    /\ UNCHANGED manifestVars
    /\ UNCHANGED <<docs, dirs, files, tempDir, permissionSets, profiles, selected, pc, load,
                   reads, retrieveLog, status, stderr, firstRun, choice>>

\* the shortening of one cell text in a column of any width
DrawCell ==
    /\ canvas.op = "none"
    /\ \E cell \in CellTexts, font \in Fonts, w \in TriedWidths :
         canvas' = [op |-> "cell", width |-> w, cells |-> <<cell>>, fonts |-> <<font>>,
                    drawn |-> <<DisplayText(cell, font, w)>>]
    /\ UNCHANGED tableVars
    /\ UNCHANGED manifestVars
    /\ UNCHANGED <<docs, dirs, files, tempDir, permissionSets, profiles, selected, pc, load,
                   reads, retrieveLog, status, stderr, firstRun, choice>>

ImageNext == DrawColumn \/ DrawCell

SpecImage == ImageInit /\ [][ImageNext]_vars

\* the text fits the column: its width is at most the column width minus
\* twice the cell padding
Fits(text, font, cellWidth) == measureText(text, font) + cellPadding * 2 <= cellWidth

Prefix(text, n) == SubSeq(text, 1, n)

\* the text drawn for the k-th cell is right for the column width: the cell
\* text when it fits, otherwise the longest prefix whose text with "..."
\* fits, the empty prefix when none does, followed by "..."
ShortenedRight(k) ==
    LET cell == canvas.cells[k]
        font == canvas.fonts[k]
        drawn == canvas.drawn[k]
    IN IF Fits(cell, font, canvas.width) THEN drawn.text = cell
       ELSE \E n \in 0..Len(cell) :
              /\ drawn.text = Prefix(cell, n) \o Ellipsis
              /\ n = 0 \/ Fits(Prefix(cell, n) \o Ellipsis, font, canvas.width)
              /\ \A m \in (n + 1)..Len(cell) :
                    ~Fits(Prefix(cell, m) \o Ellipsis, font, canvas.width)

\* C23: every drawn text is the cell text when it fits and otherwise the
\* longest fitting prefix followed by "..."; the shortening loop ends (after
\* at most one iteration per character); and in a column of the computed
\* width no cell is shortened, the header cell in the bold font included
C23_TruncationIsRightAndNeverNeeded ==
    canvas.op # "none" =>
        \A k \in 1..Len(canvas.cells) :
            /\ ShortenedRight(k)
            /\ canvas.drawn[k].steps <= Len(canvas.cells[k])
            /\ canvas.op = "column" => canvas.drawn[k].text = canvas.cells[k]

----------------------------------------------------------------------------
(* Reads and retrievals of a summary run *)

\* the number of places of a sequence that hold x
Occurrences(seq, x) == Cardinality({i \in 1..Len(seq) : seq[i] = x})

\* the calls of the loader generateAllSummary makes for one column: one for
\* each of the two headers, one per object row and one per field row
LoaderCallsPerColumn == 2 + Len(customObjects) + Len(customFields)

\* C24: in an All summary run the retrieve command is run at most once for a
\* permission set, and when the run has ended without error the document of
\* a permission set has been read once per header and per row for each column
\* of the permission set, and once more after its retrieval
C24_SummaryRereadsButRetrievesOnce ==
    selected = "All summary" =>
        \A n \in EntityNames :
            /\ Occurrences(retrieveLog, TempPackageXml(n)) <= 1
            /\ status = "exit0" =>
                 reads["PermissionSet"][n]
                    = Occurrences(permissionSets, n) * LoaderCallsPerColumn
                        + Occurrences(retrieveLog, TempPackageXml(n))

\* a summary with rows has ended without error after the document of a
\* permission set was retrieved and then read again for the later headers
\* and rows
C24_Witness ==
    /\ selected = "All summary" /\ status = "exit0"
    /\ customObjects # <<>> /\ customFields # <<>>
    /\ \E n \in EntityNames :
         /\ Occurrences(retrieveLog, TempPackageXml(n)) = 1
         /\ reads["PermissionSet"][n] > LoaderCallsPerColumn

----------------------------------------------------------------------------
(* The temporary directory of the retrieval *)

\* the run is inside retrievePermissionSet, between its call and its end
InsideRetrieve == load.pc \in {"mkdir", "write", "exec", "rm"}

\* C25: when retrievePermissionSet has ended, by success or by a failure of
\* the retrieve command or of a file operation, the directory .temp and the
\* manifest written into it no longer exist
C25_TempDirIsGoneAfterRetrieve == ~InsideRetrieve => tempDir = "none"

----------------------------------------------------------------------------
(* SpecMenu: runs of main over manifests whose entity names meet the words *)
(* of the menu ("All", "All summary") and of the path convention ("all")   *)

MenuInit ==
    /\ \E pss \in SeqUpTo(MenuNames, MaxPermissionSets),
          profs \in SeqUpTo(MenuNames, MaxProfiles) :
         /\ packageXml = RunManifest(TRUE, pss, profs)
         /\ docs \in [EntityKinds -> [MenuNames -> {"present", "absent"}]]
         \* a listed profile has its document; a document the manifest does
         \* not list is absent
         /\ \A n \in MenuNames :
              /\ n \notin Range(pss) => docs["PermissionSet"][n] = "absent"
              /\ docs["Profile"][n] = IF n \in Range(profs) THEN "present" ELSE "absent"
    /\ reader = [op |-> "none"]
    /\ customObjects = <<>>
    /\ customFields = <<>>
    /\ entityName = ""
    /\ metadata = Metadata("Profile", "", NoSection, NoSection)
    /\ describeData = [o \in ManifestObjects |-> NoDescribe]
    /\ table = [op \in TableOps |-> NotRun]
    /\ extracted = [op \in TableOps |-> NotExtracted]
    /\ dirs = {}
    /\ files = <<>>
    /\ tempDir = "none"
    /\ permissionSets = <<>>
    /\ profiles = <<>>
    /\ selected = ""
    /\ pc = Pc("start", "", 0, 0)
    /\ load = NoLoad
    /\ reads = [k \in EntityKinds |-> [n \in MenuNames |-> 0]]
    /\ retrieveLog = <<>>
    /\ status = "running"
    /\ stderr = <<>>
    /\ firstRun = NoFirstRun
    /\ canvas = NoCanvas
    /\ choice = NoChoice

MenuNext ==
    \/ MainStart
    \/ Prompt
    \/ Dispatch
    \/ ReadLocal
    \/ RetrieveMkdir
    \/ RetrieveWriteManifest
    \/ RetrieveExec
    \/ RetrieveCleanup
    \/ ReadAgain
    \/ ReadProfile
    \/ LoadFailed
    \/ CreateDesignFolder
    \/ ProfileDesign
    \/ SummaryStart
    \/ SummaryLoaded
    \/ SummaryWriteObject
    \/ SummaryWriteField

SpecMenu == MenuInit /\ [][MenuNext]_vars

\* C26: the output directories of distinct report targets are distinct: the
\* folders of two permission sets of different names differ, and the folder
\* of the summary, .design/permissionsets/all, is made and written into by
\* the summary only, never by the report of a permission set
C26_TargetFoldersAreDistinct ==
    /\ \A i, j \in 1..Len(permissionSets) :
         permissionSets[i] # permissionSets[j] =>
            PathJoin(<<".design", "permissionsets", permissionSets[i]>>)
                # PathJoin(<<".design", "permissionsets", permissionSets[j]>>)
    /\ PathJoin(<<".design", "permissionsets", "all">>) \in dirs => pc.at # "designs"

\* C27: the menu entry picked decides the generation: the entry of a
\* permission set runs the report of that permission set alone, the entry of
\* a profile runs the report of that profile under .design/profiles, and the
\* bulk commands run only when their own entries are picked
C27_MenuChoiceDecidesGeneration ==
    pc.at \notin {"start", "prompt", "dispatch"} =>
        /\ choice.kind = "All" => pc.at = "designs" /\ Targets = permissionSets
        /\ choice.kind = "PermissionSet" =>
             pc.at = "designs" /\ Targets = <<choice.name>>
        /\ choice.kind = "Profile" =>
             /\ pc.at = "profile"
             /\ dirs \subseteq {PathJoin(<<".design", "profiles", choice.name>>)}
        /\ choice.kind = "All summary" =>
             pc.at \in {"summary", "objectHeader", "objectRows", "fieldHeader", "fieldRows"}

----------------------------------------------------------------------------
(* A manifest without permission sets *)

\* the manifest lists no PermissionSet member
ListsNoPermissionSet ==
    \A i \in 1..Len(packageXml) :
        packageXml[i].name = "PermissionSet" => packageXml[i].members = <<>>

\* C28: when the manifest lists no PermissionSet member the run never gets to
\* the selection prompt: it ends with status 1 and a message on the error
\* stream, no metadata document is read or retrieved and no directory or file
\* is made, whether or not the manifest lists profiles
C28_NoPermissionSetEndsRunBeforePrompt ==
    ListsNoPermissionSet =>
        /\ pc.at = "start" /\ selected = "" /\ choice = NoChoice
        /\ status \in {"running", "exit1"}
        /\ status = "exit1" => stderr # <<>>
        /\ \A k \in EntityKinds, n \in EntityNames : reads[k][n] = 0
        /\ retrieveLog = <<>> /\ tempDir = "none"
        /\ dirs = {} /\ files = <<>>

\* a run over a manifest that lists objects and a profile and no permission
\* set has ended with status 1
C28_Witness ==
    /\ ListsNoPermissionSet
    /\ \E i \in 1..Len(packageXml) : packageXml[i].name = "Profile"
    /\ \E i \in 1..Len(packageXml) : packageXml[i].name = "CustomObject"
    /\ status = "exit1"
    /\ stderr = <<"No permission sets found in package.xml">>

----------------------------------------------------------------------------
(* C29: the cells of a field row and the member it was made from *)

\* CustomField members that are not of the form Object.Field: a member
\* without a dot and a member with two dots
UnusualFields == {"Account", "Account.Owner.Name"}
\* what the first two segments of the member with two dots join to
JoinedCellsField == "Account.Owner"

\* field sections over the unusual members: one entry of any flags, and the
\* entry of the joined cells in front of the entry of the whole member
UnusualFieldSections ==
    {NoSection}
    \cup {Section(<<e>>) :
            e \in FieldEntries(UnusualFields \cup {JoinedCellsField, "Account.Name"})}
    \cup {Section(<<d, e>>) :
            d \in FieldEntries({JoinedCellsField}),
            e \in {x \in FieldEntries({"Account.Owner.Name"}) : x.readable /\ ~x.editable}}

\* the field tables over a manifest whose CustomField list may hold unusual
\* members
FieldRowsInit ==
    /\ entityName = "Sales"
    /\ customObjects = <<>>
    /\ customFields \in SeqUpTo(ManifestFields \cup UnusualFields, MaxRows)
    /\ customFields # <<>>
    /\ describeData \in FieldDescribeCaches
    /\ \E kind \in EntityKinds, flds \in UnusualFieldSections :
         metadata = Metadata(kind, "", NoSection, flds)
    /\ table = [op \in TableOps |-> NotRun]
    /\ extracted = [op \in TableOps |-> NotExtracted]
    /\ packageXml = <<>>
    /\ reader = [op |-> "none"]
    /\ RunIdle

FieldRowsNext == SingleFieldTable \/ SummaryField

SpecFieldRows == FieldRowsInit /\ [][FieldRowsNext]_vars

\* the permission cell that the entry of the whole member gives in the table
\* of op
CodeOfWholeMember(op, fieldFullName) ==
    IF op = "singleField" THEN SingleFieldCode(FieldEntryOf(fieldFullName))
    ELSE IF metadata.root = "PermissionSet"
    THEN SummaryPermissionSetFieldCode(FieldEntryOf(fieldFullName))
    ELSE SummaryProfileFieldCode(FieldEntryOf(fieldFullName))

\* the permission cell of every field row is that of the entry whose field
\* is the whole member
PermissionCellIsOfWholeMember ==
    \A op \in FieldTableOps : (table[op].ran /\ table[op].err = "none") =>
        \A r \in 1..Len(table[op].rows) :
            table[op].rows[r][5] = CodeOfWholeMember(op, customFields[r])

\* object-API-name cell, ".", field-API-name cell: the member
CellsGiveBackMember ==
    \A op \in FieldTableOps : (table[op].ran /\ table[op].err = "none") =>
        \A r \in 1..Len(table[op].rows) : RowIdentifier(op, r) = customFields[r]

\* C29: for every CustomField member of the manifest, members without a dot
\* and with more than one dot included, the object-API-name cell and the
\* field-API-name cell of its row joined by "." are the member, and the
\* permission cell is looked up with the whole member
C29_FieldRowGivesBackMember == CellsGiveBackMember /\ PermissionCellIsOfWholeMember

----------------------------------------------------------------------------
(* C30: the object permission code can be decoded *)

\* the flags of an entry that are true, by their position in C, R, U, D, Va,
\* Ua, Fa
TrueFlags(e) == {i \in 1..7 : FlagTokens(e)[i].on}

\* the codes that the three derivations of the source give for an entry
ObjectCodes(objPermission) ==
    {SingleObjectCode(objPermission),
     SummaryPermissionSetObjectCode(objPermission),
     SummaryProfileObjectCode(objPermission)}

\* the true flags behind the permission cell of a manifest object: none when
\* the record has no entry for it
GrantedFlags(objName) ==
    IF ObjectEntryOf(objName).found THEN TrueFlags(ObjectEntryOf(objName).value) ELSE {}

\* every code that a derivation gives for some entry
AllObjectCodes == UNION {ObjectCodes(Found(e)) : e \in ObjectEntries({"Account"})}

\* the readings of a code: the sets of true flags of the entries that some
\* derivation gives this code
FlagsOfCode ==
    [c \in AllObjectCodes |->
        {TrueFlags(e) : e \in {x \in ObjectEntries({"Account"}) : c \in ObjectCodes(Found(x))}}]

\* C30: the object permission code is uniquely decodable: the permission
\* cell of a generated row has one reading over all combinations of the seven
\* flags and all derivations, the true flags of the entry behind the cell,
\* and the cell is "-" exactly when that entry has no true flag or is missing
C30_ObjectCodeIsDecodable ==
    \A op \in ObjectTableOps : (table[op].ran /\ table[op].err = "none") =>
        \A r \in 1..Len(table[op].rows) :
            /\ PermissionCell(table[op], r) \in AllObjectCodes
            /\ FlagsOfCode[PermissionCell(table[op], r)] = {GrantedFlags(customObjects[r])}
            /\ PermissionCell(table[op], r) = "-" <=> GrantedFlags(customObjects[r]) = {}

\* C30's case: a row was generated for an entry that grants Edit and Modify
\* All and nothing else, whose code "UUa" holds the letter U twice, and the
\* summary shows the same code
C30_Witness ==
    /\ table["singleObject"].ran /\ table["singleObject"].err = "none"
    /\ table["summaryObject"].ran /\ table["summaryObject"].err = "none"
    /\ \E r \in 1..Len(table["singleObject"].rows) :
         /\ GrantedFlags(customObjects[r]) = {3, 6}
         /\ PermissionCell(table["singleObject"], r) = "UUa"
         /\ PermissionCell(table["summaryObject"], r) = "UUa"

====
